---- MODULE Spec2Model ----
(***************************************************************************)
(* The vi keystroke parser of modit (src/src/vi.rs): ViContext, ViCmd and  *)
(* ViParser, driven by a host that feeds one key per parse call and        *)
(* receives the events through the callback.                               *)
(*                                                                         *)
(* Encoding of Rust values:                                                *)
(*   Option<T>    <<>> is None, <<v>> is Some(v)                           *)
(*   char         a one-character string; the control characters carry a   *)
(*                name ("<BS>", "<DEL>", "<ESC>", "<CR>"), and so does the   *)
(*                grave accent ("<TICK>")                                   *)
(*   String, Vec  a sequence                                               *)
(*   enum value   a tuple whose first element is the variant name          *)
(***************************************************************************)
EXTENDS Integers, Sequences, FiniteSets, TLC

None == <<>>
Some(v) == <<v>>
IsSome(o) == o # <<>>
Unwrap(o) == o[1]
UnwrapOr(o, d) == IF o = <<>> THEN d ELSE o[1]

(***************************************************************************)
(* Bounds of the model.                                                    *)
(***************************************************************************)
\* width of usize in bits (a 16-bit target); counts saturate at 2^UsizeBits - 1
UsizeBits == 16
\* the host goes on after a call only while the count is at most MaxCount
MaxCount == 2
\* ... while at most MaxFields fields of the parser differ from their value after new()
MaxFields == 2
\* ... while a recorded change holds at most MaxChange events
MaxChange == 5
\* ... while the Command / Search buffer holds at most MaxValue characters
MaxValue == 1
\* digits typed in a row in the count specification
MaxDigits == 5
\* characters typed in an insert session of the typing specification
MaxText == 5
\* characters of a line given to the word iterator
MaxLine == 4
\* calls of next() made after the iterator has returned None
MaxNone == 2

UsizeMax == (2 ^ UsizeBits) - 1

(***************************************************************************)
(* Characters and keys.                                                    *)
(***************************************************************************)
VI_DEFAULT_REGISTER == "\""

BACKSPACE == "<BS>"
DELETE == "<DEL>"
ESCAPE == "<ESC>"
ENTER == "\n"
CARRIAGE_RETURN == "<CR>"
TAB == "\t"
\* the grave accent, which a string of this module cannot hold
BACKTICK == "<TICK>"

KeyChar(c) == <<"Char", c>>
NamedKeys ==
  { <<"Backspace">>, <<"Backtab">>, <<"Delete">>, <<"Down">>, <<"End">>,
    <<"Enter">>, <<"Escape">>, <<"Home">>, <<"Left">>, <<"PageDown">>,
    <<"PageUp">>, <<"Right">>, <<"Tab">>, <<"Up">> }

\* Key::normalize: control characters become the named keys
Normalize(key) ==
  IF key[1] # "Char" THEN key
  ELSE CASE key[2] = BACKSPACE -> <<"Backspace">>
         [] key[2] = DELETE -> <<"Delete">>
         [] key[2] \in {ENTER, CARRIAGE_RETURN} -> <<"Enter">>
         [] key[2] = ESCAPE -> <<"Escape">>
         [] key[2] = TAB -> <<"Tab">>
         [] OTHER -> key

(***************************************************************************)
(* Motion, Operator, TextObject, Event, ViMode.                            *)
(***************************************************************************)
Lower == "Lower"
Upper == "Upper"

M(name) == <<name>>
NextChar(c) == <<"NextChar", c>>
PreviousChar(c) == <<"PreviousChar", c>>
NextCharTill(c) == <<"NextCharTill", c>>
PreviousCharTill(c) == <<"PreviousCharTill", c>>
GotoLine(n) == <<"GotoLine", n>>
NextWordEnd(w) == <<"NextWordEnd", w>>
NextWordStart(w) == <<"NextWordStart", w>>
PreviousWordEnd(w) == <<"PreviousWordEnd", w>>
PreviousWordStart(w) == <<"PreviousWordStart", w>>

\* Motion::text_object: true if a text object is needed
MotionTextObject(motion) == motion[1] \in {"Around", "Inside"}

\* Motion::reverse: the find-character motions swap direction, others have none
MotionReverse(motion) ==
  CASE motion[1] = "NextChar" -> Some(PreviousChar(motion[2]))
    [] motion[1] = "NextCharTill" -> Some(PreviousCharTill(motion[2]))
    [] motion[1] = "PreviousChar" -> Some(NextChar(motion[2]))
    [] motion[1] = "PreviousCharTill" -> Some(NextCharTill(motion[2]))
    [] OTHER -> None

T(name) == <<name>>
TWord(w) == <<"Word", w>>
TSearch(forwards) == <<"Search", forwards>>

ChangeStart == <<"ChangeStart">>
ChangeFinish == <<"ChangeFinish">>
Redraw == <<"Redraw">>
Ev(name) == <<name>>
EvInsert(c) == <<"Insert", c>>
EvMotion(motion) == <<"Motion", motion>>
EvPut(register, after) == <<"Put", register, after>>
EvSelectTextObject(t, around) == <<"SelectTextObject", t, around>>
EvSetSearch(value, forwards) == <<"SetSearch", value, forwards>>
EvYank(register) == <<"Yank", register>>

Normal == <<"Normal">>
Extra(c) == <<"Extra", c>>
Insert == <<"Insert">>
Replace == <<"Replace">>
Visual == <<"Visual">>
VisualLine == <<"VisualLine">>
Command(value) == <<"Command", value>>
Search(value, forwards) == <<"Search", value, forwards>>

(***************************************************************************)
(* ViContext: the callback and the change recorder of one parse call.      *)
(* out is the sequence of events the callback has received in this call;   *)
(* panicked records that a panicking site was reached, after which the     *)
(* call delivers nothing more; ran collects the accumulator as each        *)
(* executed ViCmd::run left it.                                            *)
(***************************************************************************)
NewContext(selection, pending_change) ==
  [ selection |-> selection,
    pending_change |-> pending_change,
    change |-> None,
    set_mode |-> None,
    out |-> <<>>,
    panicked |-> FALSE,
    ran |-> {} ]

\* (self.callback)(event)
Callback(ctx, event) ==
  IF ctx.panicked THEN ctx ELSE [ctx EXCEPT !.out = Append(@, event)]

\* start_change that opens the change without telling the host
StartChangeSilent(ctx) ==
  [ctx EXCEPT !.pending_change = IF @ = None THEN Some(<<>>) ELSE @]

\* ViContext::start_change
StartChange(ctx) ==
  Callback([ctx EXCEPT !.pending_change = IF @ = None THEN Some(<<>>) ELSE @],
           ChangeStart)

\* finish_change that closes the change without telling the host
FinishChangeSilent(ctx) ==
  [ctx EXCEPT !.change = ctx.pending_change, !.pending_change = None]

\* ViContext::finish_change
FinishChange(ctx) ==
  Callback([ctx EXCEPT !.change = ctx.pending_change, !.pending_change = None],
           ChangeFinish)

\* e that delivers the event without recording it
ENoRecord(ctx, event) == Callback(ctx, event)

\* ViContext::e: tee the event into the pending change, then deliver it
E(ctx, event) ==
  Callback([ctx EXCEPT !.pending_change =
                          IF IsSome(@) THEN Some(Append(Unwrap(@), event)) ELSE @],
           event)

\* ctx.e(event) n times in a row (the loops for _ in 0..count), computed
\* half by half so that the evaluation stays shallow for large counts
RECURSIVE ETimes(_, _, _)
ETimes(ctx, event, n) ==
  IF n = 0 THEN ctx
  ELSE IF n = 1 THEN E(ctx, event)
  ELSE CHOOSE done \in {ETimes(half, event, n - (n \div 2)) :
                          half \in {ETimes(ctx, event, n \div 2)}} : TRUE

\* ctx.e(event) for each event of a list, in order
RECURSIVE EEach(_, _)
EEach(ctx, events) ==
  IF events = <<>> THEN ctx ELSE EEach(E(ctx, Head(events)), Tail(events))

\* Option::expect on a text object: a panic when it is None
Panic(ctx) == [ctx EXCEPT !.panicked = TRUE]

(***************************************************************************)
(* ViCmd: the command accumulator.                                         *)
(***************************************************************************)
DefaultCmd ==
  [ register |-> None, count |-> None, operator |-> None, motion |-> None,
    text_object |-> None ]

\* the events of one operator applied to the selection
OperatorEffect(ctx, operator, register) ==
  CASE operator = "AutoIndent" -> E(ctx, Ev("AutoIndent"))
    [] operator = "Change" -> E(E(ctx, EvYank(register)), Ev("Delete"))
    [] operator = "Delete" -> E(E(ctx, EvYank(register)), Ev("Delete"))
    [] operator = "ShiftLeft" -> E(ctx, Ev("ShiftLeft"))
    [] operator = "ShiftRight" -> E(ctx, Ev("ShiftRight"))
    [] operator = "SwapCase" -> E(ctx, Ev("SwapCase"))
    [] operator = "Yank" -> E(ctx, EvYank(register))

\* a prelude that selects inside the text object for Around as well
SelectPreludeInside(ctx, motion, text_object, count) ==
  CASE motion[1] \in {"Around", "Inside"} ->
         IF text_object = None THEN Panic(ctx)
         ELSE E(ctx, EvSelectTextObject(Unwrap(text_object), FALSE))
    [] motion[1] = "Line" -> E(ctx, Ev("SelectLineStart"))
    [] motion[1] = "Selection" -> ctx
    [] OTHER -> ETimes(E(ctx, Ev("SelectStart")), EvMotion(motion), count)

\* a prelude that starts a selection although one exists
SelectPreludeRestarts(ctx, motion, text_object, count) ==
  CASE motion[1] = "Around" ->
         IF text_object = None THEN Panic(ctx)
         ELSE E(ctx, EvSelectTextObject(Unwrap(text_object), TRUE))
    [] motion[1] = "Inside" ->
         IF text_object = None THEN Panic(ctx)
         ELSE E(ctx, EvSelectTextObject(Unwrap(text_object), FALSE))
    [] motion[1] = "Line" -> E(ctx, Ev("SelectLineStart"))
    [] motion[1] = "Selection" -> E(ctx, Ev("SelectStart"))
    [] OTHER -> ETimes(E(ctx, Ev("SelectStart")), EvMotion(motion), count)

\* the selection an operator works on, built from the motion
SelectPrelude(ctx, motion, text_object, count) ==
  CASE motion[1] = "Around" ->
         IF text_object = None THEN Panic(ctx)
         ELSE E(ctx, EvSelectTextObject(Unwrap(text_object), TRUE))
    [] motion[1] = "Inside" ->
         IF text_object = None THEN Panic(ctx)
         ELSE E(ctx, EvSelectTextObject(Unwrap(text_object), FALSE))
    [] motion[1] = "Line" -> E(ctx, Ev("SelectLineStart"))
    [] motion[1] = "Selection" -> ctx
    [] OTHER -> ETimes(E(ctx, Ev("SelectStart")), EvMotion(motion), count)

\* a command without operator that moves once whatever the count
PlainMotionOnce(ctx, motion, text_object, count) ==
  CASE motion[1] = "Around" ->
         IF text_object = None THEN Panic(ctx)
         ELSE E(ctx, EvSelectTextObject(Unwrap(text_object), TRUE))
    [] motion[1] = "Inside" ->
         IF text_object = None THEN Panic(ctx)
         ELSE E(ctx, EvSelectTextObject(Unwrap(text_object), FALSE))
    [] OTHER -> E(ctx, EvMotion(motion))

\* the motion of a command that has no operator
PlainMotion(ctx, motion, text_object, count) ==
  CASE motion[1] = "Around" ->
         IF text_object = None THEN Panic(ctx)
         ELSE E(ctx, EvSelectTextObject(Unwrap(text_object), TRUE))
    [] motion[1] = "Inside" ->
         IF text_object = None THEN Panic(ctx)
         ELSE E(ctx, EvSelectTextObject(Unwrap(text_object), FALSE))
    [] OTHER -> ETimes(ctx, EvMotion(motion), count)

\* a precondition that lets Around / Inside run without a text object
CanRunAnyMotion(cmd, ctx) == IsSome(cmd.motion) \/ ctx.selection

\* a precondition that asks for a selection whether or not a motion is set
CanRunNeedsSelection(cmd, ctx) ==
  /\ ctx.selection
  /\ IsSome(cmd.motion) =>
       ~(MotionTextObject(Unwrap(cmd.motion)) /\ cmd.text_object = None)

\* a precondition that lets a command without motion run on no selection
CanRunNoSelection(cmd, ctx) ==
  IsSome(cmd.motion) =>
    ~(MotionTextObject(Unwrap(cmd.motion)) /\ cmd.text_object = None)

\* the precondition of ViCmd::run
CanRun(cmd, ctx) ==
  IF IsSome(cmd.motion)
    THEN ~(MotionTextObject(Unwrap(cmd.motion)) /\ cmd.text_object = None)
    ELSE ctx.selection

\* an end of an operator command that finishes the change after Change too
CloseChangeAlways(ctx, operator) ==
  [FinishChange(ctx) EXCEPT !.set_mode = Some(Normal)]

\* an end of an operator command that goes on into Insert mode after every operator
CloseChangeNever(ctx, operator) == [ctx EXCEPT !.set_mode = Some(Insert)]

\* the end of an operator command: Change goes on into Insert mode
CloseChange(ctx, operator) ==
  IF operator = "Change"
    THEN [ctx EXCEPT !.set_mode = Some(Insert)]
    ELSE [FinishChange(ctx) EXCEPT !.set_mode = Some(Normal)]

\* the events of a command that runs, from the fragments taken out of it
Compile(ctx, register, count, motion, text_object, operator) ==
  IF IsSome(operator)
    THEN CloseChange(
           E(OperatorEffect(SelectPrelude(StartChange(ctx), motion, text_object, count),
                            Unwrap(operator), register),
             Ev("SelectClear")),
           Unwrap(operator))
    ELSE PlainMotion(ctx, motion, text_object, count)

\* take() calls that leave the count in place
TakenKeepCount(cmd) ==
  [cmd EXCEPT !.register = None, !.motion = None, !.text_object = None,
              !.operator = None]

\* the accumulator after the take() calls of run
Taken(cmd) ==
  [cmd EXCEPT !.register = None, !.count = None, !.motion = None,
              !.text_object = None, !.operator = None]

\* ViCmd::run on s.cmd with the context s.ctx; the accumulator is left
\* untouched when the precondition fails
Run(s) ==
  IF ~CanRun(s.cmd, s.ctx) THEN s
  ELSE [s EXCEPT
          !.cmd = Taken(s.cmd),
          !.ctx = [Compile(s.ctx,
                           UnwrapOr(s.cmd.register, VI_DEFAULT_REGISTER),
                           UnwrapOr(s.cmd.count, 1),
                           UnwrapOr(s.cmd.motion, M("Selection")),
                           s.cmd.text_object,
                           s.cmd.operator)
                     EXCEPT !.ran = @ \cup {Taken(s.cmd)}]]

(***************************************************************************)
(* The parser during one call: its fields (self) and the context.          *)
(* The handlers below take and return such a record.                       *)
(***************************************************************************)
\* ViCmd::repeat with a closure that emits one event
CmdRepeat(s, event) ==
  [s EXCEPT !.cmd.count = None,
            !.ctx = ETimes(s.ctx, event, UnwrapOr(s.cmd.count, 1))]

\* a motion that gives way to the motion already set
CmdMotionFirst(s, motion) ==
  Run([s EXCEPT !.cmd.motion = IF IsSome(@) THEN @ ELSE Some(motion)])

\* ViCmd::motion on self.cmd
CmdMotion(s, motion) == Run([s EXCEPT !.cmd.motion = Some(motion)])

\* operator that never turns a doubled operator into the Line motion
CmdOperatorNoDouble(s, operator) == Run([s EXCEPT !.cmd.operator = Some(operator)])

\* ViCmd::operator on self.cmd
CmdOperator(s, operator) ==
  IF s.cmd.operator = Some(operator)
    THEN Run([s EXCEPT !.cmd.motion = Some(M("Line"))])
    ELSE Run([s EXCEPT !.cmd.operator = Some(operator)])

\* what ViCmd::text_object returns: the motion set needs a text object
WantsTextObject(s) ==
  IsSome(s.cmd.motion) /\ MotionTextObject(Unwrap(s.cmd.motion))

\* text_object that stores and runs whatever the motion is
CmdTextObjectAlways(s, text_object) ==
  Run([s EXCEPT !.cmd.text_object = Some(text_object)])

\* ViCmd::text_object on self.cmd
CmdTextObject(s, text_object) ==
  IF ~WantsTextObject(s) THEN s
  ELSE Run([s EXCEPT !.cmd.text_object = Some(text_object)])

\* ViCmd::default().motion(motion, ctx): a throwaway accumulator
DefaultMotion(s, motion) ==
  [s EXCEPT !.ctx =
     Run([cmd |-> [DefaultCmd EXCEPT !.motion = Some(motion)], ctx |-> s.ctx]).ctx]

\* ctx.e / ctx.start_change / ctx.finish_change from a handler
SE(s, event) == [s EXCEPT !.ctx = E(s.ctx, event)]
SStartChange(s) == [s EXCEPT !.ctx = StartChange(s.ctx)]
SFinishChange(s) == [s EXCEPT !.ctx = FinishChange(s.ctx)]
SetMode(s, mode) == [s EXCEPT !.mode = mode]

\* reset that returns every field to its value after new()
ResetForgetsChange(s) ==
  [s EXCEPT !.mode = Normal, !.cmd = DefaultCmd, !.semicolon_motion = None,
            !.last_change = None]

\* reset that leaves the accumulator as it is
ResetKeepsCmd(s) == [s EXCEPT !.mode = Normal]

\* reset that abandons the change an insert session left open
ResetDropsPending(s) ==
  [s EXCEPT !.mode = Normal, !.cmd = DefaultCmd, !.pending_change = None]

\* ViParser::reset
ResetSelf(s) == [s EXCEPT !.mode = Normal, !.cmd = DefaultCmd]


(***************************************************************************)
(* ViParser::parse, mode Normal | Visual | VisualLine.                     *)
(***************************************************************************)
DigitValue(c) ==
  CASE c = "0" -> 0 [] c = "1" -> 1 [] c = "2" -> 2 [] c = "3" -> 3 [] c = "4" -> 4
    [] c = "5" -> 5 [] c = "6" -> 6 [] c = "7" -> 7 [] c = "8" -> 8 [] c = "9" -> 9

\* usize::wrapping_mul
WrappingMul(a, b) == (a * b) % (UsizeMax + 1)

\* usize::saturating_mul and usize::saturating_add
SaturatingMul(a, b) == IF a > UsizeMax \div b THEN UsizeMax ELSE a * b
SaturatingAdd(a, b) == IF a > UsizeMax - b THEN UsizeMax ELSE a + b

\* a key that is a text object when one is awaited and a motion otherwise
TextObjectOrMotion(s, text_object, motion) ==
  IF WantsTextObject(s) THEN CmdTextObject(s, text_object) ELSE CmdMotion(s, motion)

\* a key that is a text object when one is awaited and nothing otherwise
TextObjectOnly(s, text_object) == CmdTextObject(s, text_object)

\* a key that is a text object when one is awaited and an operator otherwise
TextObjectOrOperator(s, text_object, operator) ==
  IF WantsTextObject(s) THEN CmdTextObject(s, text_object) ELSE CmdOperator(s, operator)

\* a key that is a text object when one is awaited and enters Extra(c) otherwise
TextObjectOrExtra(s, text_object, c) ==
  IF WantsTextObject(s) THEN CmdTextObject(s, text_object) ELSE SetMode(s, Extra(c))

\* an 'a' that is Around only when an operator is pending
AroundOrAppendByOperator(s) ==
  IF IsSome(s.cmd.operator)
    THEN CmdMotion(s, M("Around"))
    ELSE SetMode(DefaultMotion(SStartChange(s), M("Right")), Insert)

\* 'a' and 'i': Around / Inside, or enter insert mode
AroundOrAppend(s) ==
  IF IsSome(s.cmd.operator) \/ s.mode # Normal
    THEN CmdMotion(s, M("Around"))
    ELSE SetMode(DefaultMotion(SStartChange(s), M("Right")), Insert)

InsideOrInsert(s) ==
  IF IsSome(s.cmd.operator) \/ s.mode # Normal
    THEN CmdMotion(s, M("Inside"))
    ELSE SetMode(SStartChange(s), Insert)

\* 'p' that takes the register and the count out of the accumulator
PutAfterTakes(s) ==
  IF WantsTextObject(s) THEN CmdTextObject(s, T("Paragraph"))
  ELSE [SE(s, EvPut(UnwrapOr(s.cmd.register, VI_DEFAULT_REGISTER), TRUE))
          EXCEPT !.cmd.register = None, !.cmd.count = None]

\* 'p': the Paragraph text object, or Put after
PutAfter(s) ==
  IF WantsTextObject(s) THEN CmdTextObject(s, T("Paragraph"))
  ELSE SE(s, EvPut(UnwrapOr(s.cmd.register, VI_DEFAULT_REGISTER), TRUE))

\* 's': the Sentence text object, or substitute characters
Substitute(s) ==
  IF WantsTextObject(s) THEN CmdTextObject(s, T("Sentence"))
  ELSE SetMode(CmdRepeat(SStartChange(s), Ev("Delete")), Insert)

\* 'G' and, in Extra('g'), 'g': go to the counted line or to the default
GotoCount(s, default) ==
  LET taken == [s EXCEPT !.cmd.count = None]
  IN  IF IsSome(s.cmd.count)
        THEN CmdMotion(taken, GotoLine(Unwrap(s.cmd.count)))
        ELSE CmdMotion(taken, default)

\* a toggle that leaves for Normal mode from either visual mode
ToggleVisualEither(s, visual, select) ==
  IF s.mode # Normal
    THEN SetMode(SE(s, Ev("SelectClear")), Normal)
    ELSE SetMode(SE(s, select), visual)

\* 'v' and 'V'
ToggleVisual(s, visual, select) ==
  IF s.mode = visual
    THEN SetMode(SE(s, Ev("SelectClear")), Normal)
    ELSE SetMode(SE(s, select), visual)

\* a register key that does not remember the mode it was pressed in
SelectRegisterForgets(s, c) ==
  IF WantsTextObject(s) THEN CmdTextObject(s, T("DoubleQuotes"))
  ELSE [s EXCEPT !.mode = Extra(c)]

\* '"': the DoubleQuotes text object, or select a register
SelectRegister(s, c) ==
  IF WantsTextObject(s) THEN CmdTextObject(s, T("DoubleQuotes"))
  ELSE [s EXCEPT !.register_mode = s.mode, !.mode = Extra(c)]

\* '0' that always counts: a leading 0 starts a count of 0
ZeroStartsCount(s) ==
  [s EXCEPT !.cmd.count = Some(SaturatingMul(UnwrapOr(@, 0), 10))]

\* '0': multiply the count, or go home
Zero(s) ==
  IF IsSome(s.cmd.count)
    THEN [s EXCEPT !.cmd.count = Some(SaturatingMul(Unwrap(@), 10))]
    ELSE CmdMotion(s, M("Home"))

\* a digit that starts the count again when an operator is waiting
DigitRestarts(s, c) ==
  [s EXCEPT !.cmd.count =
     Some(IF IsSome(@) /\ s.cmd.operator = None
            THEN SaturatingAdd(SaturatingMul(Unwrap(@), 10), DigitValue(c))
            ELSE DigitValue(c))]

\* '1'..='9'
Digit(s, c) ==
  LET number == DigitValue(c)
  IN  [s EXCEPT !.cmd.count =
         Some(IF IsSome(@) THEN SaturatingAdd(SaturatingMul(Unwrap(@), 10), number)
                           ELSE number)]

\* ';' and ','
Semicolon(s) ==
  IF IsSome(s.semicolon_motion) THEN CmdMotion(s, Unwrap(s.semicolon_motion)) ELSE s

\* ',' that saves the reversed motion, so that the next ',' goes the other way
CommaFlips(s) ==
  IF IsSome(s.semicolon_motion)
    THEN LET reverse == MotionReverse(Unwrap(s.semicolon_motion))
         IN  IF IsSome(reverse)
               THEN CmdMotion([s EXCEPT !.semicolon_motion = reverse], Unwrap(reverse))
               ELSE s
    ELSE s

Comma(s) ==
  IF IsSome(s.semicolon_motion)
    THEN LET reverse == MotionReverse(Unwrap(s.semicolon_motion))
         IN  IF IsSome(reverse) THEN CmdMotion(s, Unwrap(reverse)) ELSE s
    ELSE s

\* '.' that delivers the stored events without recording them again
RECURSIVE Deliver(_, _)
Deliver(ctx, events) ==
  IF events = <<>> THEN ctx ELSE Deliver(Callback(ctx, Head(events)), Tail(events))

RepeatChangeUnrecorded(s) ==
  IF IsSome(s.last_change)
    THEN [s EXCEPT !.ctx = FinishChange(Deliver(StartChange(s.ctx), Unwrap(s.last_change)))]
    ELSE s

\* '.': replay the last change
RepeatChange(s) ==
  IF IsSome(s.last_change)
    THEN [s EXCEPT !.ctx = FinishChange(EEach(StartChange(s.ctx), Unwrap(s.last_change)))]
    ELSE s

NormalChar(s, c) ==
  CASE c = "a" -> AroundOrAppend(s)
    [] c = "A" -> SetMode(DefaultMotion(SStartChange(s), M("End")), Insert)
    [] c = "b" -> TextObjectOrMotion(s, T("Block"), PreviousWordStart(Lower))
    [] c = "B" -> TextObjectOrMotion(s, T("Block"), PreviousWordStart(Upper))
    [] c = "c" -> CmdOperator(s, "Change")
    [] c = "C" -> CmdMotion(CmdOperator(s, "Change"), M("End"))
    [] c = "d" -> CmdOperator(s, "Delete")
    [] c = "D" -> CmdMotion(CmdOperator(s, "Delete"), M("End"))
    [] c = "e" -> CmdMotion(s, NextWordEnd(Lower))
    [] c = "E" -> CmdMotion(s, NextWordEnd(Upper))
    [] c \in {"f", "F", "g"} -> SetMode(s, Extra(c))
    [] c = "G" -> GotoCount(s, M("GotoEof"))
    [] c = "h" -> CmdMotion(s, M("LeftInLine"))
    [] c = "H" -> CmdMotion(s, M("ScreenHigh"))
    [] c = "i" -> InsideOrInsert(s)
    [] c = "I" -> SetMode(DefaultMotion(SStartChange(s), M("SoftHome")), Insert)
    [] c = "j" -> CmdMotion(s, M("Down"))
    [] c = "J" -> s
    [] c = "k" -> CmdMotion(s, M("Up"))
    [] c = "K" -> s
    [] c = "l" -> CmdMotion(s, M("RightInLine"))
    [] c = "L" -> CmdMotion(s, M("ScreenLow"))
    [] c = "m" -> s
    [] c = "M" -> CmdMotion(s, M("ScreenMiddle"))
    [] c = "n" -> CmdMotion(s, M("NextSearch"))
    [] c = "N" -> CmdMotion(s, M("PreviousSearch"))
    [] c = "o" ->
         SetMode(SE(DefaultMotion(SStartChange(s), M("End")), Ev("NewLine")), Insert)
    [] c = "O" ->
         SetMode(DefaultMotion(SE(DefaultMotion(SStartChange(s), M("Home")),
                                  Ev("NewLine")),
                               M("Up")),
                 Insert)
    [] c = "p" -> PutAfter(s)
    [] c = "P" -> SE(s, EvPut(UnwrapOr(s.cmd.register, VI_DEFAULT_REGISTER), FALSE))
    [] c = "r" -> SetMode(s, Extra(c))
    [] c = "R" -> SetMode(SStartChange(s), Replace)
    [] c = "s" -> Substitute(s)
    [] c = "S" -> CmdMotion(CmdOperator(s, "Change"), M("Line"))
    [] c = "t" -> TextObjectOrExtra(s, T("Tag"), c)
    [] c = "T" -> SetMode(s, Extra(c))
    [] c = "u" -> SE(s, Ev("Undo"))
    [] c = "v" -> ToggleVisual(s, Visual, Ev("SelectStart"))
    [] c = "V" -> ToggleVisual(s, VisualLine, Ev("SelectLineStart"))
    [] c = "w" -> TextObjectOrMotion(s, TWord(Lower), NextWordStart(Lower))
    [] c = "W" -> TextObjectOrMotion(s, TWord(Upper), NextWordStart(Upper))
    [] c = "x" -> CmdRepeat(s, Ev("Delete"))
    [] c = "X" -> CmdRepeat(s, Ev("Backspace"))
    [] c = "y" -> CmdOperator(s, "Yank")
    [] c = "Y" -> CmdMotion(CmdOperator(s, "Yank"), M("Line"))
    [] c \in {"z", "Z"} -> SetMode(s, Extra(c))
    [] c = "0" -> Zero(s)
    [] c \in {"1", "2", "3", "4", "5", "6", "7", "8", "9"} -> Digit(s, c)
    [] c = BACKTICK -> TextObjectOnly(s, T("Ticks"))
    [] c = "~" -> CmdOperator(s, "SwapCase")
    [] c = "$" -> CmdMotion(s, M("End"))
    [] c = "^" -> CmdMotion(s, M("SoftHome"))
    [] c \in {"(", ")"} -> TextObjectOnly(s, T("Parentheses"))
    [] c = "-" -> CmdMotion(CmdMotion(s, M("Up")), M("SoftHome"))
    [] c = "+" -> CmdMotion(CmdMotion(s, M("Down")), M("SoftHome"))
    [] c = "=" -> CmdOperator(s, "AutoIndent")
    [] c \in {"[", "]"} -> TextObjectOnly(s, T("SquareBrackets"))
    [] c \in {"{", "}"} -> TextObjectOnly(s, T("CurlyBrackets"))
    [] c = ";" -> Semicolon(s)
    [] c = ":" -> SetMode(s, Command(<<>>))
    [] c = "'" -> TextObjectOnly(s, T("SingleQuotes"))
    [] c = "\"" -> SelectRegister(s, c)
    [] c = "," -> Comma(s)
    [] c = "<" -> TextObjectOrOperator(s, T("AngleBrackets"), "ShiftLeft")
    [] c = "." -> RepeatChange(s)
    [] c = ">" -> TextObjectOrOperator(s, T("AngleBrackets"), "ShiftRight")
    [] c = "/" -> SetMode(s, Search(<<>>, TRUE))
    [] c = "?" -> SetMode(s, Search(<<>>, FALSE))
    [] c = " " -> CmdMotion(s, M("Right"))
    [] OTHER -> s

NormalKey(s, key) ==
  CASE key[1] = "Backspace" -> CmdMotion(s, M("Left"))
    [] key[1] = "Backtab" -> s
    [] key[1] = "Delete" -> CmdRepeat(s, Ev("Delete"))
    [] key[1] = "Down" -> CmdMotion(s, M("Down"))
    [] key[1] = "End" -> CmdMotion(s, M("End"))
    [] key[1] = "Enter" -> CmdMotion(CmdMotion(s, M("Down")), M("SoftHome"))
    [] key[1] = "Escape" -> SE(ResetSelf(s), Ev("Escape"))
    [] key[1] = "Home" -> CmdMotion(s, M("Home"))
    [] key[1] = "Left" -> CmdMotion(s, M("LeftInLine"))
    [] key[1] = "PageDown" -> CmdMotion(s, M("PageDown"))
    [] key[1] = "PageUp" -> CmdMotion(s, M("PageUp"))
    [] key[1] = "Right" -> CmdMotion(s, M("RightInLine"))
    [] key[1] = "Tab" -> s
    [] key[1] = "Up" -> CmdMotion(s, M("Up"))
    [] key[1] = "Char" -> NormalChar(s, key[2])


(***************************************************************************)
(* ViParser::parse, mode Extra(extra).                                     *)
(***************************************************************************)
\* the find / till motion of Extra('f' | 'F' | 't' | 'T'); None is unreachable!()
FindMotion(extra, c) ==
  CASE extra = "f" -> Some(NextChar(c))
    [] extra = "F" -> Some(PreviousChar(c))
    [] extra = "t" -> Some(NextCharTill(c))
    [] extra = "T" -> Some(PreviousCharTill(c))
    [] OTHER -> None

\* a find handler that does not save the motion for ';' and ','
ExtraFindNoSave(s, extra, key) ==
  ResetSelf(
    IF key[1] = "Char"
      THEN LET motion == FindMotion(extra, key[2])
           IN  IF motion = None THEN [s EXCEPT !.ctx = Panic(s.ctx)]
               ELSE CmdMotion(s, Unwrap(motion))
      ELSE s)

ExtraFind(s, extra, key) ==
  ResetSelf(
    IF key[1] = "Char"
      THEN LET motion == FindMotion(extra, key[2])
           IN  IF motion = None THEN [s EXCEPT !.ctx = Panic(s.ctx)]
               ELSE [CmdMotion(s, Unwrap(motion)) EXCEPT !.semicolon_motion = motion]
      ELSE s)

\* 'n' and 'N' after 'g': the search match as a text object
InsideSearch(s, forwards) ==
  CmdTextObject(CmdMotion(s, M("Inside")), TSearch(forwards))

ExtraG(s, key) ==
  ResetSelf(
    IF key[1] = "Char"
      THEN CASE key[2] = "e" -> CmdMotion(s, PreviousWordEnd(Lower))
             [] key[2] = "E" -> CmdMotion(s, PreviousWordEnd(Upper))
             [] key[2] = "g" -> GotoCount(s, GotoLine(1))
             [] key[2] = "n" -> InsideSearch(s, TRUE)
             [] key[2] = "N" -> InsideSearch(s, FALSE)
             [] OTHER -> s
      ELSE s)

ExtraReplace(s, key) ==
  ResetSelf(
    IF key[1] = "Char"
      THEN SFinishChange(
             DefaultMotion(SE(SE(SStartChange(s), Ev("Delete")), EvInsert(key[2])),
                           M("LeftInLine")))
      ELSE s)

\* a register handler that stays in Extra('"')
ExtraRegisterStay(s, key) ==
  IF key[1] = "Char" THEN [s EXCEPT !.cmd.register = Some(key[2])] ELSE s

ExtraRegister(s, key) ==
  LET set == IF key[1] = "Char" THEN [s EXCEPT !.cmd.register = Some(key[2])] ELSE s
  IN  [set EXCEPT !.mode = s.register_mode, !.register_mode = Normal]

\* a match on extra whose last arm does not reset
ExtraKeyNoDefault(s, extra, key) ==
  CASE extra \in {"f", "F", "t", "T"} -> ExtraFind(s, extra, key)
    [] extra = "g" -> ExtraG(s, key)
    [] extra = "r" -> ExtraReplace(s, key)
    [] extra = "\"" -> ExtraRegister(s, key)
    [] OTHER -> s

ExtraKey(s, extra, key) ==
  CASE extra \in {"f", "F", "t", "T"} -> ExtraFind(s, extra, key)
    [] extra = "g" -> ExtraG(s, key)
    [] extra = "r" -> ExtraReplace(s, key)
    [] extra = "\"" -> ExtraRegister(s, key)
    [] OTHER -> ResetSelf(s)

(***************************************************************************)
(* ViParser::parse, mode Insert | Replace.                                 *)
(***************************************************************************)
InsertKey(s, key) ==
  CASE key[1] = "Backspace" -> SE(s, Ev("Backspace"))
    [] key[1] = "Backtab" -> SE(s, Ev("ShiftLeft"))
    [] key[1] = "Char" ->
         SE(IF s.mode = Replace THEN SE(s, Ev("Delete")) ELSE s, EvInsert(key[2]))
    [] key[1] = "Down" -> DefaultMotion(s, M("Down"))
    [] key[1] = "Delete" -> SE(s, Ev("Delete"))
    [] key[1] = "End" -> DefaultMotion(s, M("End"))
    [] key[1] = "Enter" -> SE(s, Ev("NewLine"))
    [] key[1] = "Escape" ->
         ResetSelf(SFinishChange(DefaultMotion(s, M("LeftInLine"))))
    [] key[1] = "Home" -> DefaultMotion(s, M("Home"))
    [] key[1] = "Left" -> DefaultMotion(s, M("LeftInLine"))
    [] key[1] = "PageDown" -> DefaultMotion(s, M("PageDown"))
    [] key[1] = "PageUp" -> DefaultMotion(s, M("PageUp"))
    [] key[1] = "Right" -> DefaultMotion(s, M("RightInLine"))
    [] key[1] = "Tab" -> SE(s, Ev("ShiftRight"))
    [] key[1] = "Up" -> DefaultMotion(s, M("Up"))

(***************************************************************************)
(* ViParser::parse, modes Command and Search.                              *)
(***************************************************************************)
\* a pop that leaves the mode as soon as the buffer is empty
PopValueLeaves(s) ==
  IF Len(s.mode[2]) <= 1 THEN ResetSelf(s)
  ELSE [s EXCEPT !.mode[2] = SubSeq(@, 1, Len(@) - 1)]

\* String::pop on the buffer of the mode: reset when it was empty
PopValue(s) ==
  IF s.mode[2] = <<>> THEN ResetSelf(s)
  ELSE [s EXCEPT !.mode[2] = SubSeq(@, 1, Len(@) - 1)]

PushValue(s, c) == [s EXCEPT !.mode[2] = Append(@, c)]

CommandKey(s, key) ==
  CASE key[1] = "Escape" -> ResetSelf(s)
    [] key[1] = "Enter" -> ResetSelf(s)
    [] key[1] = "Backspace" -> PopValue(s)
    [] key[1] = "Char" -> PushValue(s, key[2])
    [] OTHER -> s

\* a search whose Enter runs the accumulator with the motion NextSearch
SearchKeyApplies(s, key) ==
  CASE key[1] = "Escape" -> ResetSelf(s)
    [] key[1] = "Enter" ->
         ResetSelf(CmdMotion(SE(s, EvSetSearch(s.mode[2], s.mode[3])), M("NextSearch")))
    [] key[1] = "Backspace" -> PopValue(s)
    [] key[1] = "Char" -> PushValue(s, key[2])
    [] OTHER -> s

SearchKey(s, key) ==
  CASE key[1] = "Escape" -> ResetSelf(s)
    [] key[1] = "Enter" ->
         DefaultMotion(ResetSelf(SE(s, EvSetSearch(s.mode[2], s.mode[3]))),
                       M("NextSearch"))
    [] key[1] = "Backspace" -> PopValue(s)
    [] key[1] = "Char" -> PushValue(s, key[2])
    [] OTHER -> s

(***************************************************************************)
(* ViParser::parse as a whole.                                             *)
(***************************************************************************)
\* the match on self.mode
Dispatch(s, key) ==
  CASE s.mode[1] \in {"Normal", "Visual", "VisualLine"} -> NormalKey(s, key)
    [] s.mode[1] = "Extra" -> ExtraKey(s, s.mode[2], key)
    [] s.mode[1] \in {"Insert", "Replace"} -> InsertKey(s, key)
    [] s.mode[1] = "Command" -> CommandKey(s, key)
    [] s.mode[1] = "Search" -> SearchKey(s, key)

\* self.mode = the mode the context asks for, if any
ApplyMode(s) ==
  IF IsSome(s.ctx.set_mode) THEN SetMode(s, Unwrap(s.ctx.set_mode)) ELSE s

\* bookkeeping that does not move the pending change back to the parser
SaveChangeDropsPending(s) ==
  [s EXCEPT
     !.pending_change = None,
     !.last_change = IF IsSome(s.ctx.change) THEN s.ctx.change ELSE @,
     !.ctx.set_mode = None, !.ctx.pending_change = None, !.ctx.change = None]

\* self.pending_change = ctx.pending_change.take(), and the finished change
SaveChange(s) ==
  [s EXCEPT
     !.pending_change = s.ctx.pending_change,
     !.last_change = IF IsSome(s.ctx.change) THEN s.ctx.change ELSE @,
     !.ctx.set_mode = None, !.ctx.pending_change = None, !.ctx.change = None]

\* the Redraw sent while the context still holds the pending change
FinishRedrawRecorded(s) == SaveChange(ApplyMode(SE(s, Redraw)))

\* after the match: the requested mode, the change state, the Redraw
Finish(s) == SE(SaveChange(ApplyMode(s)), Redraw)

\* the parser fields of a record
ParserOf(s) ==
  [ mode |-> s.mode, cmd |-> s.cmd, register_mode |-> s.register_mode,
    semicolon_motion |-> s.semicolon_motion, pending_change |-> s.pending_change,
    last_change |-> s.last_change ]

\* a start of parse whose context does not take self.pending_change
EntryDropsPending(p, selection) ==
  [ mode |-> p.mode, cmd |-> p.cmd, register_mode |-> p.register_mode,
    semicolon_motion |-> p.semicolon_motion, pending_change |-> None,
    last_change |-> p.last_change,
    ctx |-> NewContext(selection, None) ]

\* the start of parse: the context takes self.pending_change
Entry(p, selection) ==
  [ mode |-> p.mode, cmd |-> p.cmd, register_mode |-> p.register_mode,
    semicolon_motion |-> p.semicolon_motion, pending_change |-> None,
    last_change |-> p.last_change,
    ctx |-> NewContext(selection, p.pending_change) ]

\* what a call leaves: [parser, out, panicked, ran]
Outcome(done) ==
  [ parser |-> ParserOf(done), out |-> done.ctx.out,
    panicked |-> done.ctx.panicked, ran |-> done.ctx.ran ]

\* a parse that dispatches the key as it came
ParseCallRaw(p, key, selection) ==
  Outcome(Finish(Dispatch(Entry(p, selection), key)))

\* parse(key, selection, callback) on parser p
ParseCall(p, key, selection) ==
  Outcome(Finish(Dispatch(Entry(p, selection), Normalize(key))))

\* ViParser::new
NewParser ==
  [ mode |-> Normal, cmd |-> DefaultCmd, register_mode |-> Normal,
    semicolon_motion |-> None, pending_change |-> None, last_change |-> None ]



(***************************************************************************)
(* The keys the host can send.                                             *)
(***************************************************************************)
\* every character the Normal-mode table binds, one it does not bind ("q"),
\* and the control characters
Chars ==
  { "a", "A", "b", "B", "c", "C", "d", "D", "e", "E", "f", "F", "g", "G", "h", "H",
    "i", "I", "j", "J", "k", "K", "l", "L", "m", "M", "n", "N", "o", "O", "p", "P",
    "q", "r", "R", "s", "S", "t", "T", "u", "v", "V", "w", "W", "x", "X", "y", "Y",
    "z", "Z", "0", "1", "2", "3", "4", "5", "6", "7", "8", "9", BACKTICK, "~", "$", "^",
    "(", ")", "-", "+", "=", "[", "{", "]", "}", ";", ":", "'", "\"", ",", "<", ".",
    ">", "/", "?", " ",
    BACKSPACE, DELETE, ESCAPE, ENTER, CARRIAGE_RETURN, TAB }

Keys == NamedKeys \cup {KeyChar(c) : c \in Chars}

\* the host's call of reset(), recorded in place of a key
ResetKey == <<"reset">>
NoKey == <<"none">>

(***************************************************************************)
(* WordIter: the word iterator of lib.rs.  A line is a sequence of         *)
(* characters; WIDE stands for a letter that takes two bytes in UTF-8, so  *)
(* that byte offsets and character positions differ.  The iterator is the  *)
(* record [line, word, index], index being a byte offset.                  *)
(***************************************************************************)
WIDE == "<U+00E9>"

\* char::len_utf8 of the characters of the model
Utf8Len(c) == IF c = WIDE THEN 2 ELSE 1

\* str::len: the length in bytes
RECURSIVE ByteLen(_)
ByteLen(l) == IF l = <<>> THEN 0 ELSE Utf8Len(Head(l)) + ByteLen(Tail(l))

\* the byte offset of the character at position i (of the end for Len + 1)
ByteOffset(l, i) == ByteLen(SubSeq(l, 1, i - 1))

\* char::is_whitespace and char::is_alphanumeric on the characters of the model
IsWhitespace(c) == c \in {" ", "\t"}
IsAlphanumeric(c) == c \in {"a", "7", WIDE}

\* a classification that takes '_' for punctuation
WordKindNoUnderscore(w, c) ==
  IF w = Lower
    THEN IF IsWhitespace(c) THEN "Blank"
         ELSE IF IsAlphanumeric(c) THEN "Keyword"
         ELSE "NonBlank"
    ELSE IF IsWhitespace(c) THEN "Blank" ELSE "NonBlank"

\* the WordChar of c for the flavour w
WordKind(w, c) ==
  IF w = Lower
    THEN IF IsWhitespace(c) THEN "Blank"
         ELSE IF IsAlphanumeric(c) \/ c = "_" THEN "Keyword"
         ELSE "NonBlank"
    ELSE IF IsWhitespace(c) THEN "Blank" ELSE "NonBlank"

\* the for loop of next over the characters from position i on: the record
\* [start_opt, end_opt] with which the loop ends
RECURSIVE WordScan(_, _, _, _, _)
WordScan(l, w, i, last_kind, start_opt) ==
  IF i > Len(l) THEN [start_opt |-> start_opt, end_opt |-> None]
  ELSE IF WordKind(w, l[i]) = last_kind THEN WordScan(l, w, i + 1, last_kind, start_opt)
  ELSE IF WordKind(w, l[i]) = "Blank" \/ IsSome(start_opt)
    THEN [start_opt |-> start_opt, end_opt |-> Some(ByteOffset(l, i))]
  ELSE WordScan(l, w, i + 1, WordKind(w, l[i]), Some(ByteOffset(l, i)))

\* the positions at which a slice of the line may begin or end
Boundaries(l) == 1..(Len(l) + 1)

\* str::get(a..b): the characters between two byte offsets, None when an
\* offset is not a character boundary of the line
StrGet(l, a, b) ==
  IF \E i, j \in Boundaries(l) : i <= j /\ ByteOffset(l, i) = a /\ ByteOffset(l, j) = b
    THEN Some(SubSeq(l,
                     CHOOSE i \in Boundaries(l) : ByteOffset(l, i) = a,
                     (CHOOSE j \in Boundaries(l) : ByteOffset(l, j) = b) - 1))
    ELSE None

\* the match on start_opt that ends next: [item, index]
WordFound(it, start_opt, end) ==
  IF start_opt = None THEN [item |-> None, index |-> it.index]
  ELSE IF StrGet(it.line, Unwrap(start_opt), end) = None
    THEN [item |-> None, index |-> end]
  ELSE [ item |-> Some(<<Unwrap(start_opt), Unwrap(StrGet(it.line, Unwrap(start_opt), end))>>),
         index |-> end ]

\* a next that leaves the cursor where the word it yields starts
WordIterNextStays(it) ==
  IF StrGet(it.line, it.index, ByteLen(it.line)) = None
    THEN [item |-> None, index |-> it.index]
  ELSE CHOOSE result \in
         { [item |-> found.item, index |-> it.index] :
             found \in
               { WordFound(it, scan.start_opt, UnwrapOr(scan.end_opt, ByteLen(it.line))) :
                   scan \in {WordScan(it.line, it.word,
                                      CHOOSE i \in Boundaries(it.line) :
                                        ByteOffset(it.line, i) = it.index,
                                      "Blank", None)} } } : TRUE

\* WordIter::next: [item, index], the item yielded and the cursor afterwards
WordIterNext(it) ==
  IF StrGet(it.line, it.index, ByteLen(it.line)) = None
    THEN [item |-> None, index |-> it.index]
  ELSE CHOOSE result \in
         { WordFound(it, scan.start_opt, UnwrapOr(scan.end_opt, ByteLen(it.line))) :
             scan \in {WordScan(it.line, it.word,
                                CHOOSE i \in Boundaries(it.line) :
                                  ByteOffset(it.line, i) = it.index,
                                "Blank", None)} } : TRUE

(***************************************************************************)
(* State.  The parser's fields; the host's position (pc): "idle" between   *)
(* calls, "returned" when a call has come back and its events (out) are    *)
(* with the host, "panicked" when parse panicked.  key, selection, pre,    *)
(* ran describe the call that returned: its arguments, the parser before   *)
(* it, the accumulators its executed runs left.  opened, span and single   *)
(* describe the event stream before that call: the ChangeStart events not  *)
(* yet closed, the events since the last ChangeStart (with the number of   *)
(* ChangeStart since the last ChangeFinish), and the events of the last    *)
(* completed change when it was opened by a single ChangeStart.  digits    *)
(* are the digits typed in the count specification, typed the keys sent    *)
(* in the typing specification.  line, word and index are the fields of a  *)
(* WordIter, items what its next() has yielded so far, nones how often     *)
(* next() has returned None.                                               *)
(***************************************************************************)
VARIABLES mode, cmd, register_mode, semicolon_motion, pending_change, last_change,
          pc, key, selection, out, pre, ran, opened, span, single, digits, typed,
          line, word, index, items, nones

parserVars ==
  <<mode, cmd, register_mode, semicolon_motion, pending_change, last_change>>
callVars == <<pc, key, selection, out, pre, ran>>
streamVars == <<opened, span, single>>
wordVars == <<line, word, index, items, nones>>
vars == <<parserVars, callVars, streamVars, digits, typed, wordVars>>

Parser ==
  [ mode |-> mode, cmd |-> cmd, register_mode |-> register_mode,
    semicolon_motion |-> semicolon_motion, pending_change |-> pending_change,
    last_change |-> last_change ]

SetParser(p) ==
  /\ mode' = p.mode
  /\ cmd' = p.cmd
  /\ register_mode' = p.register_mode
  /\ semicolon_motion' = p.semicolon_motion
  /\ pending_change' = p.pending_change
  /\ last_change' = p.last_change

\* no word iterator has been constructed
NoIter ==
  /\ line = <<>>
  /\ word = Lower
  /\ index = 0
  /\ items = <<>>
  /\ nones = 0

Init ==
  /\ mode = NewParser.mode
  /\ cmd = NewParser.cmd
  /\ register_mode = NewParser.register_mode
  /\ semicolon_motion = NewParser.semicolon_motion
  /\ pending_change = NewParser.pending_change
  /\ last_change = NewParser.last_change
  /\ pc = "idle"
  /\ key = NoKey
  /\ selection = FALSE
  /\ out = <<>>
  /\ pre = NewParser
  /\ ran = {}
  /\ opened = 0
  /\ span = [starts |-> 0, events |-> None]
  /\ single = None
  /\ digits = <<>>
  /\ typed = <<>>
  /\ NoIter

(***************************************************************************)
(* The event stream as the host sees it.                                   *)
(***************************************************************************)
TrackEvent(g, event) ==
  CASE event = ChangeStart ->
         [ opened |-> g.opened + 1,
           span |-> [starts |-> g.span.starts + 1, events |-> Some(<<>>)],
           single |-> g.single ]
    [] event = ChangeFinish ->
         [ opened |-> g.opened - 1,
           span |-> [starts |-> 0, events |-> None],
           single |-> IF g.span.starts = 1 THEN g.span.events ELSE None ]
    [] event = Redraw -> g
    [] OTHER ->
         [g EXCEPT !.span.events = IF IsSome(@) THEN Some(Append(Unwrap(@), event)) ELSE @]

RECURSIVE Track(_, _)
Track(g, events) ==
  IF events = <<>> THEN g
  ELSE IF Len(events) = 1 THEN TrackEvent(g, events[1])
  ELSE CHOOSE done \in {Track(half, SubSeq(events, Len(events) \div 2 + 1, Len(events))) :
                          half \in {Track(g, SubSeq(events, 1, Len(events) \div 2))}} : TRUE

Stream == [opened |-> opened, span |-> span, single |-> single]
StreamAfter == Track(Stream, out)

(***************************************************************************)
(* How far the host goes on.  Every key is sent, with the selection active *)
(* and inactive, in every state the host reaches.  The host sends a        *)
(* further key after a call only while the bounds hold, only when a        *)
(* character that a mode took as data is one of DataChars, once a change   *)
(* has been opened or recorded only after one of ChangeKeys, once a find   *)
(* motion has been saved only after one of FindKeys, while a change is     *)
(* left over outside Insert and Replace only after one of LeftOverKeys,    *)
(* and while the stream has no change open besides the one the parser      *)
(* records.                                                                *)
(***************************************************************************)
DataChars == {"x"}

ChangeKeys ==
  {ResetKey, <<"Escape">>} \cup {KeyChar(c) : c \in {"i", "x", "d", "."}}

FindKeys ==
  {ResetKey, <<"Escape">>} \cup {KeyChar(c) : c \in {"f", "x", ";", ",", "d"}}

LeftOverKeys == {ResetKey, KeyChar("d")}

\* the modes whose handler takes a character as data
TakesData(m) ==
  \/ m[1] \in {"Insert", "Replace", "Command", "Search"}
  \/ m[1] = "Extra" /\ m[2] \in {"f", "F", "t", "T", "r", "\""}

OptLen(o) == IF o = None THEN 0 ELSE Len(Unwrap(o))
Bit(b) == IF b THEN 1 ELSE 0

\* a change is pending although the parser is not in an insert session
LeftOver(p) == p.pending_change # None /\ p.mode[1] \notin {"Insert", "Replace"}

\* how many fields of the parser differ from their value after new()
Fields(p) ==
  Bit(p.cmd.register # None) + Bit(p.cmd.count # None) + Bit(p.cmd.operator # None)
    + Bit(p.cmd.motion # None) + Bit(p.mode # Normal)
    + Bit(p.register_mode # Normal) + Bit(p.semicolon_motion # None)
    + Bit(p.last_change # None) + Bit(LeftOver(p))

\* the parser p that call k left, and the stream g after the call, are within the bounds
WithinBounds(p, g) ==
  /\ Fields(p) <= MaxFields
  /\ UnwrapOr(p.cmd.count, 0) <= MaxCount
  /\ OptLen(p.pending_change) <= MaxChange
  /\ OptLen(p.last_change) <= MaxChange
  /\ OptLen(g.span.events) <= MaxChange
  /\ p.mode[1] \in {"Command", "Search"} => Len(p.mode[2]) <= MaxValue

\* the changes open in the stream g are the ones the parser p records
Balanced(p, g) == g.opened = Bit(p.pending_change # None)

ContinuesAfter(before, k, p, g) ==
  /\ WithinBounds(p, g)
  /\ Balanced(p, g)
  /\ TakesData(before.mode) /\ k[1] = "Char" => k[2] \in DataChars
  /\ p.pending_change # None \/ p.last_change # None => k \in ChangeKeys
  /\ p.semicolon_motion # None => k \in FindKeys
  /\ LeftOver(p) => k \in LeftOverKeys

Continues == ContinuesAfter(pre, key, Parser, StreamAfter)

(***************************************************************************)
(* Actions.                                                                *)
(***************************************************************************)
\* the host calls parse(k, sel, callback)
ParseKey(k, sel) ==
  /\ pc = "idle"
  /\ \E r \in {ParseCall(Parser, k, sel)} :
       /\ SetParser(r.parser)
       /\ pc' = IF r.panicked THEN "panicked" ELSE "returned"
       /\ out' = r.out
       /\ ran' = r.ran
  /\ key' = k
  /\ selection' = sel
  /\ pre' = Parser
  /\ UNCHANGED streamVars

Parse ==
  /\ \E k \in Keys, sel \in BOOLEAN : ParseKey(k, sel)
  /\ UNCHANGED <<digits, typed, wordVars>>

\* the host calls reset()
Reset ==
  /\ pc = "idle"
  /\ SetParser(ResetSelf(Parser))
  /\ pc' = "returned"
  /\ key' = ResetKey
  /\ selection' = FALSE
  /\ out' = <<>>
  /\ ran' = {}
  /\ pre' = Parser
  /\ UNCHANGED <<streamVars, digits, typed, wordVars>>

\* the host has taken the events of the call and is ready for the next one
Resume ==
  /\ pc = "returned"
  /\ pc' = "idle"
  /\ key' = NoKey
  /\ selection' = FALSE
  /\ out' = <<>>
  /\ ran' = {}
  /\ pre' = Parser
  /\ \E g \in {StreamAfter} :
       /\ opened' = g.opened
       /\ span' = g.span
       /\ single' = g.single
  /\ UNCHANGED parserVars

Return ==
  /\ Continues
  /\ Resume
  /\ UNCHANGED <<digits, typed, wordVars>>

Next == Parse \/ Reset \/ Return

Spec == Init /\ [][Next]_vars

(***************************************************************************)
(* The count specification: a fresh parser to which the host types digits  *)
(* only, at most MaxDigits of them, the first one not "0".                 *)
(***************************************************************************)
CountDigits == {"0", "1", "3", "5", "6", "7", "9"}

TypeDigit ==
  /\ Len(digits) < MaxDigits
  /\ \E c \in CountDigits :
       /\ digits = <<>> => c # "0"
       /\ ParseKey(KeyChar(c), FALSE)
       /\ digits' = Append(digits, c)
  /\ UNCHANGED <<typed, wordVars>>

ReturnCount == Resume /\ UNCHANGED <<digits, typed, wordVars>>

NextCount == TypeDigit \/ ReturnCount

SpecCount == Init /\ [][NextCount]_vars

(***************************************************************************)
(* The parse specification: the host of Spec when it never calls reset().  *)
(***************************************************************************)
NextParse == Parse \/ Return

SpecParse == Init /\ [][NextParse]_vars

(***************************************************************************)
(* The accumulator specification: ViCmd::run applied once to an            *)
(* accumulator as parse can hand it over: any register, count and          *)
(* operator, a motion that some arm passes to cmd.motion or none, and a    *)
(* text object only together with Around or Inside.                        *)
(***************************************************************************)
OperatorNames ==
  {"AutoIndent", "Change", "Delete", "ShiftLeft", "ShiftRight", "SwapCase", "Yank"}

Options(S) == {None} \cup {Some(x) : x \in S}

Accumulators ==
  { c \in [ register : Options({"a"}),
            count : Options(1..MaxCount),
            operator : Options(OperatorNames),
            motion : Options({M("Around"), M("Inside"), M("Line"), M("Down"),
                              NextChar("x")}),
            text_object : Options({TWord(Lower), T("Paragraph")}) ] :
      IsSome(c.text_object) => c.motion \in {Some(M("Around")), Some(M("Inside"))} }

InitRun ==
  /\ mode \in {Normal, Visual, VisualLine}
  /\ cmd \in Accumulators
  /\ register_mode = NewParser.register_mode
  /\ semicolon_motion = NewParser.semicolon_motion
  /\ pending_change = NewParser.pending_change
  /\ last_change = NewParser.last_change
  /\ pc = "idle"
  /\ key = NoKey
  /\ selection \in BOOLEAN
  /\ out = <<>>
  /\ pre = Parser
  /\ ran = {}
  /\ opened = 0
  /\ span = [starts |-> 0, events |-> None]
  /\ single = None
  /\ digits = <<>>
  /\ typed = <<>>
  /\ NoIter

\* self.cmd.run(ctx) with a new context, and the context stored as parse
\* stores it
RunCmd ==
  /\ pc = "idle"
  /\ \E r \in {Outcome(SaveChange(ApplyMode(Run(Entry(Parser, selection)))))} :
       /\ SetParser(r.parser)
       /\ pc' = IF r.panicked THEN "panicked" ELSE "returned"
       /\ out' = r.out
       /\ ran' = r.ran
  /\ pre' = Parser
  /\ UNCHANGED <<key, selection, streamVars, digits, typed, wordVars>>

SpecRun == InitRun /\ [][RunCmd]_vars

(***************************************************************************)
(* The typing specification: a fresh parser, the selection inactive, to    *)
(* which the host types either an insert session (i, at most MaxText       *)
(* characters of TextChars, Escape), or a change session (c, a motion key, *)
(* characters of TextChars while at most MaxText keys are typed, Escape),  *)
(* or a buffer session (/, ? or :, then characters of TextChars and        *)
(* Backspace while fewer than MaxText keys are typed, Enter or Escape, for *)
(* as long as the parser is in Search or Command mode), or a count and     *)
(* then a motion key, or an operator command (digits, d or y, digits, and  *)
(* then a motion key, the operator key again, or a or i and a text object  *)
(* key); a further digit is typed only while the count is at most          *)
(* MaxCount.                                                               *)
(***************************************************************************)
TextChars == {"H", "e", "l", "o"}
TextKeys == {KeyChar(c) : c \in TextChars}

DigitKeys ==
  {KeyChar(c) : c \in {"0", "1", "2", "3", "4", "5", "6", "7", "8", "9"}}

\* the motion of the keys whose handler is one cmd.motion(m) with a fixed m
MotionOfChar(c) ==
  CASE c = "b" -> PreviousWordStart(Lower)
    [] c = "B" -> PreviousWordStart(Upper)
    [] c = "e" -> NextWordEnd(Lower)
    [] c = "E" -> NextWordEnd(Upper)
    [] c = "h" -> M("LeftInLine")
    [] c = "H" -> M("ScreenHigh")
    [] c = "j" -> M("Down")
    [] c = "k" -> M("Up")
    [] c = "l" -> M("RightInLine")
    [] c = "L" -> M("ScreenLow")
    [] c = "M" -> M("ScreenMiddle")
    [] c = "n" -> M("NextSearch")
    [] c = "N" -> M("PreviousSearch")
    [] c = "w" -> NextWordStart(Lower)
    [] c = "W" -> NextWordStart(Upper)
    [] c = "$" -> M("End")
    [] c = "^" -> M("SoftHome")
    [] c = " " -> M("Right")

MotionOfKey(k) ==
  CASE k[1] = "Backspace" -> M("Left")
    [] k[1] = "Down" -> M("Down")
    [] k[1] = "End" -> M("End")
    [] k[1] = "Home" -> M("Home")
    [] k[1] = "Left" -> M("LeftInLine")
    [] k[1] = "PageDown" -> M("PageDown")
    [] k[1] = "PageUp" -> M("PageUp")
    [] k[1] = "Right" -> M("RightInLine")
    [] k[1] = "Up" -> M("Up")
    [] k[1] = "Char" -> MotionOfChar(k[2])

MotionChars ==
  { "b", "B", "e", "E", "h", "H", "j", "k", "l", "L", "M", "n", "N", "w", "W",
    "$", "^", " " }

MotionKeys ==
  { <<"Backspace">>, <<"Down">>, <<"End">>, <<"Home">>, <<"Left">>, <<"PageDown">>,
    <<"PageUp">>, <<"Right">>, <<"Up">> } \cup {KeyChar(c) : c \in MotionChars}

\* the host is in an insert session that Escape has not yet ended
Inserting ==
  /\ typed # <<>>
  /\ typed[1] = KeyChar("i")
  /\ typed[Len(typed)] # <<"Escape">>

\* the host is in a change session that Escape has not yet ended
Changing ==
  /\ Len(typed) >= 2
  /\ typed[1] = KeyChar("c")
  /\ typed[Len(typed)] # <<"Escape">>

\* the host is typing into the buffer of Search or Command mode
Editing ==
  /\ typed # <<>>
  /\ typed[1] \in {KeyChar("/"), KeyChar("?"), KeyChar(":")}
  /\ mode[1] \in {"Command", "Search"}

\* the host has typed digits only, the first of them not 0
Counting ==
  /\ typed # <<>>
  /\ \A i \in 1..Len(typed) : typed[i] \in DigitKeys
  /\ typed[1] # KeyChar("0")

\* the operator keys of an operator command, and the keys that end it
OperatorTypedKeys == {KeyChar("d"), KeyChar("y")}
OperandKeys == {KeyChar("w"), KeyChar("j"), KeyChar("a"), KeyChar("i")}
ObjectKeys == {KeyChar("w"), KeyChar("p")}

\* the host is typing an operator command and the operator is waiting
Operating ==
  /\ typed # <<>>
  /\ typed[1] \in DigitKeys \cup OperatorTypedKeys
  /\ mode = Normal
  /\ IsSome(cmd.operator)

\* the key of the operator that is waiting
WaitingKey ==
  IF cmd.operator = Some("Delete") THEN KeyChar("d") ELSE KeyChar("y")

MayType(k) ==
  \/ typed = <<>> /\ k \in {KeyChar("i"), KeyChar("c"), KeyChar("/"), KeyChar("?"),
                            KeyChar(":")} \cup DigitKeys \cup MotionKeys
                            \cup OperatorTypedKeys
  \/ Counting /\ k \in OperatorTypedKeys
  \/ Operating /\ cmd.motion = None
       /\ \/ k \in OperandKeys \cup {WaitingKey}
          \/ /\ k \in DigitKeys
             /\ UnwrapOr(cmd.count, 0) <= MaxCount
             /\ cmd.count = None => k # KeyChar("0")
  \/ Operating /\ cmd.motion # None /\ k \in ObjectKeys
  \/ typed = <<KeyChar("c")>> /\ k \in MotionKeys
  \/ Inserting /\ (k = <<"Escape">> \/ (Len(typed) <= MaxText /\ k \in TextKeys))
  \/ Changing /\ (k = <<"Escape">> \/ (Len(typed) <= MaxText /\ k \in TextKeys))
  \/ Editing /\ (k \in {<<"Escape">>, <<"Enter">>}
                   \/ (Len(typed) < MaxText /\ k \in TextKeys \cup {<<"Backspace">>}))
  \/ Counting /\ (k \in MotionKeys
                    \/ (k \in DigitKeys /\ UnwrapOr(cmd.count, 0) <= MaxCount))

TypeKey ==
  /\ \E k \in Keys :
       /\ MayType(k)
       /\ ParseKey(k, FALSE)
       /\ typed' = Append(typed, k)
  /\ UNCHANGED <<digits, wordVars>>

ReturnTyped == Resume /\ UNCHANGED <<digits, typed, wordVars>>

NextTyped == TypeKey \/ ReturnTyped

SpecTyped == Init /\ [][NextTyped]_vars

(***************************************************************************)
(* The word specification: a WordIter constructed on a line of at most     *)
(* MaxLine characters of WordAlphabet, with either flavour, on which the   *)
(* host calls next() until it has returned None MaxNone times.             *)
(***************************************************************************)
WordAlphabet == {"a", "7", "_", ".", " ", WIDE}

RECURSIVE LinesOf(_)
LinesOf(n) ==
  IF n = 0 THEN {<<>>}
  ELSE LinesOf(n - 1) \cup {Append(l, c) : l \in LinesOf(n - 1), c \in WordAlphabet}

\* WordIter::new(line, word)
InitWord ==
  /\ mode = NewParser.mode
  /\ cmd = NewParser.cmd
  /\ register_mode = NewParser.register_mode
  /\ semicolon_motion = NewParser.semicolon_motion
  /\ pending_change = NewParser.pending_change
  /\ last_change = NewParser.last_change
  /\ pc = "idle"
  /\ key = NoKey
  /\ selection = FALSE
  /\ out = <<>>
  /\ pre = NewParser
  /\ ran = {}
  /\ opened = 0
  /\ span = [starts |-> 0, events |-> None]
  /\ single = None
  /\ digits = <<>>
  /\ typed = <<>>
  /\ line \in LinesOf(MaxLine)
  /\ word \in {Lower, Upper}
  /\ index = 0
  /\ items = <<>>
  /\ nones = 0

\* the host calls next()
WordNext ==
  /\ nones < MaxNone
  /\ \E r \in {WordIterNext([line |-> line, word |-> word, index |-> index])} :
       /\ index' = r.index
       /\ items' = IF IsSome(r.item) THEN Append(items, Unwrap(r.item)) ELSE items
       /\ nones' = IF IsSome(r.item) THEN nones ELSE nones + 1
  /\ UNCHANGED <<line, word, parserVars, callVars, streamVars, digits, typed>>

SpecWord == InitWord /\ [][WordNext]_vars

(***************************************************************************)
(* Properties.                                                             *)
(***************************************************************************)
\* a call of parse has returned to the host
Returned == pc = "returned" /\ key # ResetKey

\* the host's call of reset() has returned
WasReset == pc = "returned" /\ key = ResetKey

Count(events, event) == Cardinality({i \in 1..Len(events) : events[i] = event})

Has(events, name) == \E i \in 1..Len(events) : events[i][1] = name

\* C1: every parse call emits exactly one Redraw and it is the last event of
\* the call; the events stored for a replay by "." never contain a Redraw.
RedrawTerminator ==
  /\ Returned =>
       /\ Len(out) >= 1
       /\ out[Len(out)] = Redraw
       /\ Count(out, Redraw) = 1
  /\ Count(UnwrapOr(last_change, <<>>), Redraw) = 0
  /\ Count(UnwrapOr(pending_change, <<>>), Redraw) = 0

\* C1 witness: a "." that replayed a stored change of two events or more
RedrawAfterReplay ==
  /\ Returned
  /\ key = KeyChar(".")
  /\ IsSome(pre.last_change)
  /\ Len(out) >= 5

\* the ChangeStart events not yet closed after the first n events of the call
OpenAfter(n) == Track(Stream, SubSeq(out, 1, n)).opened

\* C2: in the event stream of all calls so far, every prefix has at least as
\* many ChangeStart as ChangeFinish events.
ChangeBracketing ==
  /\ opened >= 0
  /\ pc = "returned" => \A n \in 0..Len(out) : OpenAfter(n) >= 0

\* C2 witness: Escape in Insert mode closes the change an earlier call opened
ClosedByLaterCall ==
  /\ Returned
  /\ pre.mode = Insert
  /\ key = <<"Escape">>
  /\ opened = 1
  /\ Count(out, ChangeStart) = 0
  /\ Count(out, ChangeFinish) = 1

\* C3: after a completed change that one ChangeStart opened, with events E
\* between its ChangeStart and ChangeFinish, "." in Normal mode emits
\* ChangeStart, E, ChangeFinish, Redraw.
DotRepeatIdentity ==
  Returned /\ key = KeyChar(".") /\ pre.mode = Normal /\ IsSome(single) =>
    out = <<ChangeStart>> \o Unwrap(single) \o <<ChangeFinish, Redraw>>

\* C3 witness: "." replays an insert session that Escape closed
DotRepeatsInsert ==
  /\ Returned
  /\ key = KeyChar(".")
  /\ pre.mode = Normal
  /\ IsSome(single)
  /\ Has(Unwrap(single), "Insert")
  /\ Has(out, "Insert")

\* C4: parse never reaches text_object.expect("no text object") or
\* unreachable!(), whatever parse and reset calls came before.
NeverPanics == pc # "panicked"

\* C4 witness: run executed Around / Inside with its text object, and the
\* Extra handler of f / F / t / T built its motion
RanTextObject ==
  /\ Returned
  /\ \/ Has(out, "SelectTextObject") /\ IsSome(pre.cmd.operator)
     \/ pre.mode = Extra("t") /\ Has(out, "Motion") /\ IsSome(pre.cmd.operator)

\* C5: every ViCmd::run that executed left its accumulator with register,
\* count, operator, motion and text_object absent.
AccumulatorReset == pc = "returned" => \A c \in ran : c = DefaultCmd

\* C5 witness: a run executed on an accumulator holding a count and an operator
RanCountedOperator ==
  /\ Returned
  /\ ran # {}
  /\ IsSome(pre.cmd.count)
  /\ IsSome(pre.cmd.operator)
  /\ Has(out, "ChangeStart")

\* C6: the mode after parse returns is never the Extra(c) it was called in.
ExtraResets == Returned /\ pre.mode[1] = "Extra" => mode # pre.mode

\* C6 witness: a register chosen in Visual mode leads back to Visual mode
ExtraRegisterLeaves ==
  /\ Returned
  /\ pre.mode = Extra("\"")
  /\ mode = Visual
  /\ IsSome(cmd.register)

OperatorKeys ==
  {KeyChar(c) : c \in {"c", "C", "d", "D", "S", "y", "Y", "~", "=", "<", ">"}}

\* C7: in every state between calls, a key other than an operator key gives
\* the same events and the same parser with the selection active and
\* inactive; the parser has no field for the selection.
SelectionOnlyForOperators ==
  pc = "idle" =>
    \A k \in Keys \ OperatorKeys : ParseCall(Parser, k, TRUE) = ParseCall(Parser, k, FALSE)

\* C7 witness: a motion key completed a pending operator with the selection active
MotionWithSelection ==
  /\ Returned
  /\ selection
  /\ key \notin OperatorKeys
  /\ IsSome(pre.cmd.operator)
  /\ Has(out, "Motion")

\* C8: reset() leaves mode Normal and the accumulator default, and keeps
\* semicolon_motion, last_change, register_mode and pending_change.
ResetKeepsFind ==
  WasReset =>
    /\ mode = Normal
    /\ cmd = DefaultCmd
    /\ semicolon_motion = pre.semicolon_motion
    /\ last_change = pre.last_change
    /\ register_mode = pre.register_mode
    /\ pending_change = pre.pending_change

\* C8 as the specification states it: reset() returns semicolon_motion to None
ResetClearsFind ==
  WasReset =>
    /\ mode = Normal
    /\ cmd = DefaultCmd
    /\ semicolon_motion = None
    /\ last_change = pre.last_change

\* C8 witness: reset() in another mode than Normal after a find
ResetAfterFind ==
  /\ WasReset
  /\ IsSome(pre.semicolon_motion)
  /\ pre.mode # Normal
  /\ mode = Normal
  /\ IsSome(semicolon_motion)

OperatorOfKey(c) ==
  CASE c = "c" -> "Change" [] c = "d" -> "Delete" [] c = "y" -> "Yank"
    [] c = "~" -> "SwapCase" [] c = "=" -> "AutoIndent" [] c = "<" -> "ShiftLeft"
    [] c = ">" -> "ShiftRight"

\* the events of an operator on the selection, register not chosen
EffectEvents(operator) ==
  CASE operator \in {"Change", "Delete"} -> <<EvYank(VI_DEFAULT_REGISTER), Ev("Delete")>>
    [] operator = "Yank" -> <<EvYank(VI_DEFAULT_REGISTER)>>
    [] OTHER -> <<Ev(operator)>>

\* operator and then motion Line on the parser p with an empty accumulator
ExplicitLine(p, operator) ==
  Outcome(Finish(CmdMotion(CmdOperator(Entry([p EXCEPT !.cmd = DefaultCmd], FALSE),
                                       operator),
                           M("Line"))))

\* the second key of op op has returned, selection inactive, Normal mode
Doubled(c) ==
  /\ Returned
  /\ ~selection
  /\ pre.mode = Normal
  /\ pre.cmd = [DefaultCmd EXCEPT !.operator = Some(OperatorOfKey(c))]
  /\ key = KeyChar(c)

\* C9: op op gives the events, the mode and the accumulator of op followed
\* by the motion Line: ChangeStart, SelectLineStart, the operator's effect,
\* SelectClear, and ChangeFinish unless the operator is Change.
DoubleOperatorCollapse ==
  \A c \in {"c", "d", "y", "~", "=", "<", ">"} :
    Doubled(c) =>
      \A operator \in {OperatorOfKey(c)}, explicit \in {ExplicitLine(pre, OperatorOfKey(c))} :
        /\ out = explicit.out
        /\ mode = explicit.parser.mode
        /\ cmd = explicit.parser.cmd
        /\ cmd = DefaultCmd
        /\ mode = IF operator = "Change" THEN Insert ELSE Normal
        /\ out = <<ChangeStart, Ev("SelectLineStart")>> \o EffectEvents(operator)
                   \o <<Ev("SelectClear")>>
                   \o (IF operator = "Change" THEN <<>> ELSE <<ChangeFinish>>)
                   \o <<Redraw>>

\* C9 witness: c c has entered Insert mode with the change left open
DoubledChange == Doubled("c") /\ mode = Insert /\ IsSome(pending_change)

RECURSIVE DecimalValue(_)
DecimalValue(ds) ==
  IF ds = <<>> THEN 0
  ELSE DecimalValue(SubSeq(ds, 1, Len(ds) - 1)) * 10 + DigitValue(ds[Len(ds)])

Min(a, b) == IF a < b THEN a ELSE b

\* C10: after the digits typed so far, the count is the smaller of their
\* decimal value and usize::MAX.
CountSaturates ==
  digits # <<>> => cmd.count = Some(Min(DecimalValue(digits), UsizeMax))

\* C10 witness: the digits went past usize::MAX, once by the multiplication
\* and the count stays at usize::MAX
CountSaturated ==
  /\ Len(digits) >= 2
  /\ SubSeq(digits, 1, Len(digits) - 1) # <<>>
  /\ DecimalValue(SubSeq(digits, 1, Len(digits) - 1)) * 10 > UsizeMax
  /\ cmd.count = Some(UsizeMax)

(***************************************************************************)
(* Properties of the typing specification.                                 *)
(***************************************************************************)
HelloKeys ==
  <<KeyChar("i"), KeyChar("H"), KeyChar("e"), KeyChar("l"), KeyChar("l"),
    KeyChar("o"), <<"Escape">>>>

\* the host has typed i and what follows it
InsertSession == typed # <<>> /\ typed[1] = KeyChar("i")

\* Insert(c) for each character key of ks
Inserts(ks) == [i \in 1..Len(ks) |-> EvInsert(ks[i][2])]

\* the events of the last call of an insert session, where Escape emits escape
SessionEvents(escape) ==
  IF Len(typed) = 1 THEN <<ChangeStart, Redraw>>
  ELSE IF typed[Len(typed)] = <<"Escape">> THEN escape \o <<Redraw>>
  ELSE <<EvInsert(typed[Len(typed)][2]), Redraw>>

\* the events of the session between its ChangeStart and ChangeFinish
SessionChange ==
  Inserts(SubSeq(typed, 2, Len(typed) - 1)) \o <<EvMotion(M("LeftInLine"))>>

\* the session is over: Normal mode, and the host saw one change holding
\* the Insert events and the Motion
SessionOver ==
  /\ mode = Normal
  /\ pending_change = None
  /\ StreamAfter.opened = 0
  /\ StreamAfter.single = Some(SessionChange)

\* C11: on a fresh parser with the selection inactive, i, then characters,
\* then Escape (i, H, e, l, l, o, Escape among them) give, besides one Redraw
\* per key: ChangeStart on i, Insert(c) on each character c, and
\* Motion(LeftInLine), ChangeFinish on Escape, with no Escape event; the
\* parser is then in Normal mode.
InsertHello ==
  pc = "returned" /\ InsertSession =>
    /\ out = SessionEvents(<<EvMotion(M("LeftInLine")), ChangeFinish>>)
    /\ IF typed[Len(typed)] = <<"Escape">> THEN SessionOver ELSE mode = Insert

\* C11 as the specification states it: the Escape key of i, H, e, l, l, o,
\* Escape emits Motion(LeftInLine), ChangeFinish and Escape
InsertHelloEscape ==
  pc = "returned" /\ (\E n \in 1..Len(HelloKeys) : typed = SubSeq(HelloKeys, 1, n)) =>
    /\ out = SessionEvents(<<EvMotion(M("LeftInLine")), ChangeFinish, Ev("Escape")>>)
    /\ IF typed[Len(typed)] = <<"Escape">> THEN SessionOver ELSE mode = Insert

\* C11 witness: the Escape of i, H, e, l, l, o, Escape has returned
HelloTyped == pc = "returned" /\ typed = HelloKeys /\ mode = Normal

\* the host has typed c and what follows it
ChangeSession == typed # <<>> /\ typed[1] = KeyChar("c")

\* n times the same event
Repeated(event, n) == [i \in 1..n |-> event]

\* the decimal value of digit keys
KeysValue(ks) == DecimalValue([i \in 1..Len(ks) |-> ks[i][2]])

Deletion(m) ==
  <<Ev("SelectStart"), EvMotion(m), EvYank(VI_DEFAULT_REGISTER), Ev("Delete"),
    Ev("SelectClear")>>

\* the change of a change session: the deletion, then the text typed so far
Recorded == Deletion(MotionOfKey(typed[2])) \o Inserts(SubSeq(typed, 3, Len(typed)))

\* C21: on a fresh parser with the selection inactive, c, a motion key,
\* characters and Escape form one change: c emits only Redraw, the motion key
\* emits the only ChangeStart and the deletion (selection prelude, Yank,
\* Delete, SelectClear) and enters Insert, each character emits Insert(c),
\* Escape emits Motion(LeftInLine) and the only ChangeFinish; the pending
\* change grows with each key, and after Escape last_change is the deletion,
\* the Insert events and Motion(LeftInLine), which is also the one change the
\* host saw between ChangeStart and ChangeFinish.
ChangeThenInsert ==
  pc = "returned" /\ ChangeSession =>
    IF Len(typed) = 1
      THEN out = <<Redraw>> /\ pending_change = None /\ mode = Normal
    ELSE IF Len(typed) = 2
      THEN /\ out = <<ChangeStart>> \o Recorded \o <<Redraw>>
           /\ mode = Insert
           /\ pending_change = Some(Recorded)
           /\ last_change = None
    ELSE IF typed[Len(typed)] # <<"Escape">>
      THEN /\ out = <<EvInsert(typed[Len(typed)][2]), Redraw>>
           /\ mode = Insert
           /\ pending_change = Some(Recorded)
           /\ last_change = None
    ELSE \A change \in {Deletion(MotionOfKey(typed[2]))
                           \o Inserts(SubSeq(typed, 3, Len(typed) - 1))
                           \o <<EvMotion(M("LeftInLine"))>>} :
           /\ out = <<EvMotion(M("LeftInLine")), ChangeFinish, Redraw>>
           /\ mode = Normal
           /\ pending_change = None
           /\ last_change = Some(change)
           /\ StreamAfter.opened = 0
           /\ StreamAfter.single = Some(change)

\* C21 witness: c, w, H, e, Escape has returned with the change recorded
ChangedWord ==
  /\ pc = "returned"
  /\ typed = <<KeyChar("c"), KeyChar("w"), KeyChar("H"), KeyChar("e"), <<"Escape">>>>
  /\ last_change = Some(<<Ev("SelectStart"), EvMotion(NextWordStart(Lower)),
                          EvYank(VI_DEFAULT_REGISTER), Ev("Delete"), Ev("SelectClear"),
                          EvInsert("H"), EvInsert("e"), EvMotion(M("LeftInLine"))>>)

(***************************************************************************)
(* Properties of single commands, stated on the call that returned.        *)
(***************************************************************************)
NormalModes == {Normal, Visual, VisualLine}

\* the key of the call as the match saw it
KeyIn == Normalize(key)

\* the count and the register of the accumulator the call found
CountOf(c) == UnwrapOr(c.count, 1)
RegisterOf(c) == UnwrapOr(c.register, VI_DEFAULT_REGISTER)

\* the events of an operator on the selection, with the register
EffectWith(operator, register) ==
  CASE operator \in {"Change", "Delete"} -> <<EvYank(register), Ev("Delete")>>
    [] operator = "Yank" -> <<EvYank(register)>>
    [] OTHER -> <<Ev(operator)>>

\* the events of a call without its trailing Redraw
Body(events) == SubSeq(events, 1, Len(events) - 1)

\* C13: in Normal mode with operator Change pending and no motion set, a key
\* bound to one motion m emits ChangeStart, SelectStart, Motion(m) count
\* times, Yank{register}, Delete, SelectClear, Redraw and no ChangeFinish;
\* the parser is then in Insert mode, the accumulator is default and the
\* change stays pending with the events recorded (c, w: one
\* Motion(NextWordStart(Lower)) and register '"').
ChangeMotion ==
  /\ Returned
  /\ pre.mode = Normal
  /\ pre.cmd.operator = Some("Change")
  /\ pre.cmd.motion = None
  /\ KeyIn \in MotionKeys
  => /\ out = <<ChangeStart, Ev("SelectStart")>>
                \o Repeated(EvMotion(MotionOfKey(KeyIn)), CountOf(pre.cmd))
                \o <<EvYank(RegisterOf(pre.cmd)), Ev("Delete"), Ev("SelectClear"), Redraw>>
     /\ mode = Insert
     /\ cmd = DefaultCmd
     /\ pending_change = Some(UnwrapOr(pre.pending_change, <<>>) \o Tail(Body(out)))
     /\ last_change = pre.last_change

\* C13 witness: c, w with the selection inactive
ChangeWord ==
  /\ Returned
  /\ ~selection
  /\ pre = [NewParser EXCEPT !.cmd.operator = Some("Change")]
  /\ key = KeyChar("w")
  /\ out = <<ChangeStart, Ev("SelectStart"), EvMotion(NextWordStart(Lower)),
             EvYank(VI_DEFAULT_REGISTER), Ev("Delete"), Ev("SelectClear"), Redraw>>
  /\ mode = Insert
  /\ IsSome(pending_change)

TextObjectOfChar(c) ==
  CASE c = "w" -> TWord(Lower)
    [] c = "W" -> TWord(Upper)
    [] c \in {"b", "B"} -> T("Block")
    [] c = "p" -> T("Paragraph")
    [] c = "s" -> T("Sentence")
    [] c = "t" -> T("Tag")
    [] c = BACKTICK -> T("Ticks")
    [] c \in {"(", ")"} -> T("Parentheses")
    [] c \in {"[", "]"} -> T("SquareBrackets")
    [] c \in {"{", "}"} -> T("CurlyBrackets")
    [] c = "'" -> T("SingleQuotes")
    [] c = "\"" -> T("DoubleQuotes")
    [] c \in {"<", ">"} -> T("AngleBrackets")

TextObjectChars ==
  { "w", "W", "b", "B", "p", "s", "t", BACKTICK, "(", ")", "[", "]", "{", "}", "'",
    "\"", "<", ">" }

\* the keys that only set an operator
PlainOperatorKeys == {KeyChar(c) : c \in {"c", "d", "y", "~", "=", "<", ">"}}

\* a text-object key arrived with an operator and Around / Inside pending
TextObjectArrives ==
  /\ Returned
  /\ pre.mode \in NormalModes
  /\ IsSome(pre.cmd.operator)
  /\ pre.cmd.motion \in {Some(M("Around")), Some(M("Inside"))}
  /\ key \in {KeyChar(c) : c \in TextObjectChars}

\* the operator key with nothing selected, and i / a with an operator pending,
\* emit only Redraw and store the operator, the motion
FragmentsSilent ==
  /\ Returned /\ pre.mode = Normal /\ pre.cmd = DefaultCmd /\ ~selection
       /\ key \in PlainOperatorKeys
     => out = <<Redraw>> /\ cmd = [DefaultCmd EXCEPT !.operator = Some(OperatorOfKey(key[2]))]
  /\ Returned /\ pre.mode \in NormalModes /\ IsSome(pre.cmd.operator)
       /\ key \in {KeyChar("i"), KeyChar("a")}
     => /\ out = <<Redraw>>
        /\ cmd = [pre.cmd EXCEPT !.motion =
                     Some(IF key = KeyChar("i") THEN M("Inside") ELSE M("Around"))]

\* the events of the text-object key; closing is what follows SelectClear
TextObjectEvents(closing) ==
  <<ChangeStart,
    EvSelectTextObject(TextObjectOfChar(key[2]), pre.cmd.motion = Some(M("Around")))>>
    \o EffectWith(Unwrap(pre.cmd.operator), RegisterOf(pre.cmd))
    \o <<Ev("SelectClear")>> \o closing \o <<Redraw>>

\* C14: with an operator pending, i or a followed by a text-object key t runs
\* the command on the t key: ChangeStart, SelectTextObject(t, around) with
\* around false for i and true for a, the operator effect, SelectClear, and
\* then ChangeFinish with mode Normal unless the operator is Change, which
\* emits no ChangeFinish and leaves the mode Insert; the operator key (with
\* nothing selected) and the i / a key emit only Redraw.
TextObjectCommand ==
  /\ FragmentsSilent
  /\ TextObjectArrives =>
       /\ cmd = DefaultCmd
       /\ IF pre.cmd.operator = Some("Change")
            THEN out = TextObjectEvents(<<>>) /\ mode = Insert
            ELSE out = TextObjectEvents(<<ChangeFinish>>) /\ mode = Normal

\* C14 as the specification states it: ChangeFinish and mode Normal after
\* every operator
TextObjectCommandFinishes ==
  /\ FragmentsSilent
  /\ TextObjectArrives =>
       /\ cmd = DefaultCmd
       /\ out = TextObjectEvents(<<ChangeFinish>>)
       /\ mode = Normal

\* C14 witness: d, a, p has deleted around the paragraph
DeleteAroundParagraph ==
  /\ TextObjectArrives
  /\ pre.cmd = [DefaultCmd EXCEPT !.operator = Some("Delete"), !.motion = Some(M("Around"))]
  /\ key = KeyChar("p")
  /\ out = <<ChangeStart, EvSelectTextObject(T("Paragraph"), TRUE),
             EvYank(VI_DEFAULT_REGISTER), Ev("Delete"), Ev("SelectClear"),
             ChangeFinish, Redraw>>
  /\ mode = Normal

\* the call was in Extra(f | F | t | T) and its key was a character
FindCall ==
  /\ Returned
  /\ pre.mode \in {Extra("f"), Extra("F"), Extra("t"), Extra("T")}
  /\ KeyIn[1] = "Char"

\* the motion a find call makes
FoundMotion ==
  CASE pre.mode[2] = "f" -> NextChar(KeyIn[2])
    [] pre.mode[2] = "F" -> PreviousChar(KeyIn[2])
    [] pre.mode[2] = "t" -> NextCharTill(KeyIn[2])
    [] pre.mode[2] = "T" -> PreviousCharTill(KeyIn[2])

\* ';' or ',' was handled with no operator pending
RepeatCall(c) ==
  /\ Returned
  /\ pre.mode \in NormalModes
  /\ pre.cmd.operator = None
  /\ key = KeyChar(c)

\* C15: with no operator pending, the character after f / F / t / T emits
\* the find motion (count times) and saves it; the saved motion is the one
\* of the last such call, absent when there was none; ';' emits the saved
\* motion m, ',' emits reverse(m), and both emit only Redraw when no motion
\* is saved.
FindRepeat ==
  /\ FindCall =>
       /\ semicolon_motion = Some(FoundMotion)
       /\ pre.cmd.operator = None =>
            out = Repeated(EvMotion(FoundMotion), CountOf(pre.cmd)) \o <<Redraw>>
  /\ pc = "returned" /\ ~FindCall => semicolon_motion = pre.semicolon_motion
  /\ pc = "idle" => semicolon_motion = pre.semicolon_motion
  /\ RepeatCall(";") =>
       out = (IF IsSome(pre.semicolon_motion)
                THEN Repeated(EvMotion(Unwrap(pre.semicolon_motion)), CountOf(pre.cmd))
                ELSE <<>>) \o <<Redraw>>
  /\ RepeatCall(",") =>
       out = (IF IsSome(pre.semicolon_motion)
                THEN Repeated(EvMotion(Unwrap(MotionReverse(Unwrap(pre.semicolon_motion)))),
                              CountOf(pre.cmd))
                ELSE <<>>) \o <<Redraw>>

\* C15 witness: ',' after f, x has moved to the previous x
CommaAfterFind ==
  /\ RepeatCall(",")
  /\ pre.semicolon_motion = Some(NextChar("x"))
  /\ out = <<EvMotion(PreviousChar("x")), Redraw>>

(***************************************************************************)
(* Properties of the accumulator specification.                            *)
(***************************************************************************)
\* a motion is set and, when it is Around or Inside, a text object is
\* present; or no motion is set and the selection is active
RunPrecondition(c, sel) ==
  \/ /\ IsSome(c.motion)
     /\ Unwrap(c.motion) \in {M("Around"), M("Inside")} => IsSome(c.text_object)
  \/ c.motion = None /\ sel

\* C16: run executes if and only if a motion is set (with a text object when
\* it is Around or Inside) or no motion is set and the selection is active;
\* otherwise it emits nothing, requests no mode, records no change and
\* leaves register, count, operator, motion and text_object as they were.
RunGuard ==
  /\ pc = "idle" /\ ~RunPrecondition(cmd, selection) =>
       \A s \in {Entry(Parser, selection)} : Run(s) = s
  /\ pc = "returned" /\ RunPrecondition(pre.cmd, selection) =>
       /\ ran = {DefaultCmd}
       /\ cmd = DefaultCmd
       /\ out # <<>>
  /\ pc = "returned" /\ ~RunPrecondition(pre.cmd, selection) =>
       /\ ran = {}
       /\ out = <<>>
       /\ Parser = pre

\* C16 witness: run refused an operator with Around and no text object, and
\* the selection active
RunRefused ==
  /\ pc = "returned"
  /\ selection
  /\ IsSome(pre.cmd.operator)
  /\ pre.cmd.motion = Some(M("Around"))
  /\ pre.cmd.text_object = None
  /\ out = <<>>
  /\ cmd = pre.cmd

(***************************************************************************)
(* Properties of the Extra modes, of pending changes and of ignored keys.  *)
(***************************************************************************)
\* the key handled in an Extra mode ran a pending Change operator
CompletesChange ==
  /\ pre.cmd.operator = Some("Change")
  /\ \/ pre.mode[2] \in {"f", "F", "t", "T"} /\ KeyIn[1] = "Char"
     \/ pre.mode[2] = "g" /\ KeyIn \in {KeyChar(c) : c \in {"e", "E", "g", "n", "N"}}

\* Extra('"') is entered by the '"' key only, which stores the mode it was
\* pressed in, and the key handled in Extra('"') leads back to that mode
RegisterReturns ==
  /\ Returned /\ mode = Extra("\"") =>
       /\ key = KeyChar("\"")
       /\ pre.mode \in NormalModes
       /\ register_mode = pre.mode
  /\ pc = "idle" /\ mode = Extra("\"") => register_mode \in NormalModes
  /\ Returned /\ pre.mode = Extra("\"") => mode = pre.register_mode

\* C17: after the key handled in Extra(c), c not '"', the mode is Insert when
\* the key ran a pending Change operator and Normal otherwise; after the key
\* handled in Extra('"') the mode is the one in which '"' was pressed.
ExtraReturns ==
  /\ RegisterReturns
  /\ Returned /\ pre.mode[1] = "Extra" /\ pre.mode # Extra("\"") =>
       mode = IF CompletesChange THEN Insert ELSE Normal

\* C17 as the specification states it: always Normal after Extra(c), c not '"'
ExtraReturnsNormal ==
  /\ RegisterReturns
  /\ Returned /\ pre.mode[1] = "Extra" /\ pre.mode # Extra("\"") => mode = Normal

\* C17 witness: c, f, x has entered Insert mode
ChangeToFound ==
  /\ Returned
  /\ pre.mode = Extra("f")
  /\ pre.cmd.operator = Some("Change")
  /\ key = KeyChar("x")
  /\ Has(out, "Motion")
  /\ mode = Insert

InsertModes == {Insert, Replace}

\* the ChangeStart events of the call not yet closed after its first n events
OpenWithin(n) ==
  Count(SubSeq(out, 1, n), ChangeStart) - Count(SubSeq(out, 1, n), ChangeFinish)

\* C18: when only parse is called on a fresh parser, a change is pending
\* exactly when the mode is Insert or Replace; a call that neither starts
\* nor ends in Insert or Replace (an operator other than Change, r and a
\* character, '.') closes inside the call every change it opens.
PendingIffInsert ==
  /\ IsSome(pending_change) <=> mode \in InsertModes
  /\ Returned /\ pre.mode \notin InsertModes /\ mode \notin InsertModes =>
       /\ \A n \in 0..Len(out) : OpenWithin(n) >= 0
       /\ OpenWithin(Len(out)) = 0

\* C18 witness: r and a character opened and closed a change in one call
ReplaceCharClosed ==
  /\ Returned
  /\ pre.mode = Extra("r")
  /\ Has(out, "ChangeStart")
  /\ Has(out, "ChangeFinish")
  /\ mode = Normal
  /\ pending_change = None

\* the characters of Chars that no arm of the Normal-mode match names
UnboundChars == {"q"}

\* the characters that are text objects and nothing else
PureTextObjectChars == {BACKTICK, "'", "(", ")", "[", "]", "{", "}"}

AwaitsTextObject(c) == c.motion \in {Some(M("Around")), Some(M("Inside"))}

\* an unbound character in Normal | Visual | VisualLine
UnboundTyped ==
  pre.mode \in NormalModes /\ KeyIn \in {KeyChar(c) : c \in UnboundChars}

\* a text-object character when no Around / Inside motion is pending
TextObjectUnwanted ==
  /\ pre.mode \in NormalModes
  /\ KeyIn \in {KeyChar(c) : c \in PureTextObjectChars}
  /\ ~AwaitsTextObject(pre.cmd)

\* a key that is no character in an Extra mode that expects one
ExtraWithoutChar(extras) ==
  pre.mode \in {Extra(c) : c \in extras} /\ KeyIn[1] # "Char"

\* C19: a key that is ignored causes exactly one event, the Redraw: an
\* unbound character, Tab and Backtab in Normal, Visual and VisualLine, a
\* bracket, quote or backtick when no Around / Inside motion is pending, a
\* key that is no character in Extra f, F, t, T, g, r, and a key that is not
\* Escape, Enter, Backspace or a character in Command and Search.
IgnoredKeyRedraws ==
  /\ Returned
  /\ \/ UnboundTyped
     \/ pre.mode \in NormalModes /\ KeyIn \in {<<"Tab">>, <<"Backtab">>}
     \/ TextObjectUnwanted
     \/ pre.mode \in NormalModes /\ KeyIn = KeyChar("\"") /\ ~AwaitsTextObject(pre.cmd)
     \/ ExtraWithoutChar({"f", "F", "t", "T", "g", "r"})
     \/ /\ pre.mode[1] \in {"Command", "Search"}
        /\ KeyIn[1] \notin {"Escape", "Enter", "Backspace", "Char"}
  => out = <<Redraw>>

\* C19 witness: a bracket after d was ignored
BracketIgnored ==
  /\ Returned
  /\ TextObjectUnwanted
  /\ IsSome(pre.cmd.operator)
  /\ key = KeyChar("(")
  /\ out = <<Redraw>>

\* C20: a key that is no character in Extra f, F, t, T, g, r leaves the mode
\* Normal and the accumulator default; in Extra('"') it leads back to the
\* mode '"' was pressed in and keeps the accumulator; an unbound character
\* and a text-object character that no motion needs leave the mode and the
\* accumulator as they were.
IgnoredLeaves ==
  /\ Returned /\ ExtraWithoutChar({"f", "F", "t", "T", "g", "r"}) =>
       Parser = [pre EXCEPT !.mode = Normal, !.cmd = DefaultCmd]
  /\ Returned /\ ExtraWithoutChar({"\""}) =>
       Parser = [pre EXCEPT !.mode = pre.register_mode, !.register_mode = Normal]
  /\ Returned /\ (UnboundTyped \/ TextObjectUnwanted) => Parser = pre

\* C20 as the specification states it: mode Normal and the accumulator
\* default after each of the three ignored combinations
IgnoredResets ==
  /\ Returned
  /\ \/ UnboundTyped
     \/ TextObjectUnwanted
     \/ ExtraWithoutChar({"f", "F", "t", "T", "g", "r", "\""})
  => mode = Normal /\ cmd = DefaultCmd

\* C20 witness: the operator survived an unbound character
OperatorSurvives ==
  /\ Returned
  /\ UnboundTyped
  /\ pre.mode = Normal
  /\ pre.cmd.operator = Some("Delete")
  /\ cmd = pre.cmd
  /\ mode = Normal

\* C22: in Normal, Visual or VisualLine with no motion pending, an operator
\* key (c, d, y, ~, =, <, >) other than the pending operator's own key, with
\* the selection active, runs at once on the selection: ChangeStart, the
\* operator's effect with the register, SelectClear, then ChangeFinish and
\* mode Normal (for Change no ChangeFinish and mode Insert), nothing between
\* ChangeStart and the effect, the accumulator default afterwards; with the
\* selection inactive the key emits only Redraw, keeps the mode and leaves
\* its operator pending.
OperatorOnSelection ==
  /\ Returned
  /\ pre.mode \in NormalModes
  /\ pre.cmd.motion = None
  /\ KeyIn \in PlainOperatorKeys
  /\ pre.cmd.operator # Some(OperatorOfKey(KeyIn[2]))
  => \A operator \in {OperatorOfKey(KeyIn[2])} :
       IF selection
         THEN /\ out = <<ChangeStart>> \o EffectWith(operator, RegisterOf(pre.cmd))
                        \o <<Ev("SelectClear")>>
                        \o (IF operator = "Change" THEN <<>> ELSE <<ChangeFinish>>)
                        \o <<Redraw>>
              /\ mode = IF operator = "Change" THEN Insert ELSE Normal
              /\ cmd = DefaultCmd
         ELSE /\ out = <<Redraw>>
              /\ mode = pre.mode
              /\ cmd = [pre.cmd EXCEPT !.operator = Some(operator)]

\* C22 witness: y in Visual mode with the selection active
YankSelection ==
  /\ Returned
  /\ selection
  /\ pre.mode = Visual
  /\ pre.cmd = DefaultCmd
  /\ key = KeyChar("y")
  /\ out = <<ChangeStart, EvYank(VI_DEFAULT_REGISTER), Ev("SelectClear"), ChangeFinish,
             Redraw>>
  /\ mode = Normal

\* C23: in Search mode with buffer v and direction d, Enter emits
\* SetSearch(v, d), then Motion(NextSearch) once, then Redraw, and nothing
\* else, whatever operator, count or register was pending; in Command mode
\* Enter emits only Redraw; in both the mode is then Normal and the
\* accumulator default.
SearchEnter ==
  /\ Returned
  /\ pre.mode[1] \in {"Command", "Search"}
  /\ KeyIn = <<"Enter">>
  => /\ out = IF pre.mode[1] = "Search"
                THEN <<EvSetSearch(pre.mode[2], pre.mode[3]), EvMotion(M("NextSearch")),
                       Redraw>>
                ELSE <<Redraw>>
     /\ mode = Normal
     /\ cmd = DefaultCmd

\* C23 witness: Enter after a search for x entered with an operator pending
SearchDropsOperator ==
  /\ Returned
  /\ IsSome(pre.cmd.operator)
  /\ pre.mode = Search(<<"x">>, FALSE)
  /\ key = <<"Enter">>
  /\ out = <<EvSetSearch(<<"x">>, FALSE), EvMotion(M("NextSearch")), Redraw>>
  /\ cmd = DefaultCmd

\* C24: in Command and Search modes a character is appended to the buffer,
\* Backspace on a non-empty buffer removes its last character and stays in
\* the mode, Backspace on an empty buffer and Escape leave for Normal mode,
\* and each of these keys emits only Redraw.
BufferEditing ==
  /\ Returned
  /\ pre.mode[1] \in {"Command", "Search"}
  /\ KeyIn[1] \in {"Char", "Backspace", "Escape"}
  => /\ out = <<Redraw>>
     /\ mode = CASE KeyIn[1] = "Char" -> [pre.mode EXCEPT ![2] = Append(@, KeyIn[2])]
                 [] KeyIn[1] = "Escape" -> Normal
                 [] pre.mode[2] = <<>> -> Normal
                 [] OTHER -> [pre.mode EXCEPT ![2] = SubSeq(@, 1, Len(@) - 1)]

\* C24 witness: Backspace has emptied a buffer that held more than one
\* character before, and the parser is still in Search mode
BufferEmptied ==
  /\ pc = "returned"
  /\ typed = <<KeyChar("?"), KeyChar("H"), KeyChar("e"), <<"Backspace">>, <<"Backspace">>>>
  /\ pre.mode = Search(<<"H">>, FALSE)
  /\ mode = Search(<<>>, FALSE)

\* the double quote was pressed with no Around / Inside motion pending
RegisterKeyed ==
  /\ Returned
  /\ pre.mode \in NormalModes
  /\ KeyIn = KeyChar("\"")
  /\ pre.cmd.motion \notin {Some(M("Around")), Some(M("Inside"))}

\* the key after the double quote has returned
RegisterNamed == Returned /\ pre.mode = Extra("\"")

\* a motion key has completed a pending operator that yanks
YankingCommand ==
  /\ Returned
  /\ pre.mode \in NormalModes
  /\ pre.cmd.motion = None
  /\ pre.cmd.operator \in {Some("Change"), Some("Delete"), Some("Yank")}
  /\ KeyIn \in MotionKeys

\* the call replayed the last change
Replayed == pre.mode \in NormalModes /\ KeyIn = KeyChar(".")

\* C25: the double quote pressed in Normal, Visual or VisualLine with no
\* Around / Inside motion pending emits only Redraw, enters Extra('"') and
\* stores the mode it was pressed in as register_mode; the next key sets the
\* register of the accumulator when it is a character and leaves the
\* accumulator alone otherwise, and in both cases the mode becomes the stored
\* mode and register_mode becomes Normal; a command that completes a Change,
\* Delete or Yank operator then emits Yank once, with the selected register,
\* or with '"' when none was selected, and no call other than a replay emits
\* a Yank with another register.
RegisterSelection ==
  /\ RegisterKeyed =>
       /\ out = <<Redraw>>
       /\ mode = Extra("\"")
       /\ register_mode = pre.mode
       /\ cmd = pre.cmd
  /\ RegisterNamed =>
       /\ out = <<Redraw>>
       /\ mode = pre.register_mode
       /\ register_mode = Normal
       /\ cmd = IF KeyIn[1] = "Char" THEN [pre.cmd EXCEPT !.register = Some(KeyIn[2])]
                ELSE pre.cmd
  /\ YankingCommand => Count(out, EvYank(RegisterOf(pre.cmd))) = 1
  /\ Returned /\ ~Replayed =>
       \A i \in 1..Len(out) : out[i][1] = "Yank" => out[i] = EvYank(RegisterOf(pre.cmd))

\* C25 witness: ", x, y, w has yanked a word into the register x
YankIntoRegister ==
  /\ Returned
  /\ pre.mode = Normal
  /\ pre.cmd = [DefaultCmd EXCEPT !.register = Some("x"), !.operator = Some("Yank")]
  /\ key = KeyChar("w")
  /\ out = <<ChangeStart, Ev("SelectStart"), EvMotion(NextWordStart(Lower)), EvYank("x"),
             Ev("SelectClear"), ChangeFinish, Redraw>>

\* C26: v in Visual emits SelectClear and goes to Normal, and in Normal or
\* VisualLine emits SelectStart and goes to Visual; V in VisualLine emits
\* SelectClear and goes to Normal, and in Normal or Visual emits
\* SelectLineStart and goes to VisualLine; neither key changes the
\* accumulator; a key bound to one motion, pressed with no operator pending,
\* leaves the mode as it was.
VisualToggle ==
  /\ Returned /\ pre.mode \in NormalModes /\ KeyIn = KeyChar("v") =>
       /\ out = IF pre.mode = Visual THEN <<Ev("SelectClear"), Redraw>>
                ELSE <<Ev("SelectStart"), Redraw>>
       /\ mode = IF pre.mode = Visual THEN Normal ELSE Visual
       /\ cmd = pre.cmd
  /\ Returned /\ pre.mode \in NormalModes /\ KeyIn = KeyChar("V") =>
       /\ out = IF pre.mode = VisualLine THEN <<Ev("SelectClear"), Redraw>>
                ELSE <<Ev("SelectLineStart"), Redraw>>
       /\ mode = IF pre.mode = VisualLine THEN Normal ELSE VisualLine
       /\ cmd = pre.cmd
  /\ Returned /\ pre.mode \in NormalModes /\ KeyIn \in MotionKeys
       /\ pre.cmd.operator = None => mode = pre.mode

\* C26 witness: V pressed in Visual mode
VisualToLine ==
  /\ Returned
  /\ pre.mode = Visual
  /\ key = KeyChar("V")
  /\ out = <<Ev("SelectLineStart"), Redraw>>
  /\ mode = VisualLine

\* the control characters and the named key of each
ControlChars == {BACKSPACE, DELETE, ENTER, CARRIAGE_RETURN, ESCAPE, TAB}

NamedFor(x) ==
  CASE x = BACKSPACE -> <<"Backspace">>
    [] x = DELETE -> <<"Delete">>
    [] x = ENTER -> <<"Enter">>
    [] x = CARRIAGE_RETURN -> <<"Enter">>
    [] x = ESCAPE -> <<"Escape">>
    [] x = TAB -> <<"Tab">>

\* the event carries a control character: an Insert, or a find / till Motion
CarriesControl(event) ==
  \/ event[1] = "Insert" /\ event[2] \in ControlChars
  \/ /\ event[1] = "Motion"
     /\ event[2][1] \in {"NextChar", "PreviousChar", "NextCharTill", "PreviousCharTill"}
     /\ event[2][2] \in ControlChars

\* C27: in every state between calls, whatever the mode, parse(Char(x)) for
\* a control character x (backspace, delete, newline, carriage return,
\* escape, tab) gives the events and the parser of parse of the named key
\* (Backspace, Delete, Enter, Enter, Escape, Tab); no event delivered or
\* recorded, no saved find motion, no register and no Command / Search
\* buffer holds a control character.
KeyNormalization ==
  /\ pc = "idle" =>
       \A x \in ControlChars, sel \in BOOLEAN :
         ParseCall(Parser, KeyChar(x), sel) = ParseCall(Parser, NamedFor(x), sel)
  /\ \A i \in 1..Len(out) : ~CarriesControl(out[i])
  /\ \A i \in 1..OptLen(pending_change) : ~CarriesControl(Unwrap(pending_change)[i])
  /\ \A i \in 1..OptLen(last_change) : ~CarriesControl(Unwrap(last_change)[i])
  /\ IsSome(semicolon_motion) => Unwrap(semicolon_motion)[2] \notin ControlChars
  /\ IsSome(cmd.register) => Unwrap(cmd.register) \notin ControlChars
  /\ mode[1] \in {"Command", "Search"} =>
       \A i \in 1..Len(mode[2]) : mode[2][i] \notin ControlChars

\* C27 witness: a carriage return in Insert mode was taken as Enter
ReturnIsEnter ==
  /\ Returned
  /\ pre.mode = Insert
  /\ key = KeyChar(CARRIAGE_RETURN)
  /\ out = <<Ev("NewLine"), Redraw>>

\* the events that position the cursor for an insert key
Positioning(c) ==
  CASE c = "a" -> <<EvMotion(M("Right"))>>
    [] c = "i" -> <<>>
    [] c = "A" -> <<EvMotion(M("End"))>>
    [] c = "I" -> <<EvMotion(M("SoftHome"))>>
    [] c = "o" -> <<EvMotion(M("End")), Ev("NewLine")>>
    [] c = "O" -> <<EvMotion(M("Home")), Ev("NewLine"), EvMotion(M("Up"))>>

\* C28: in Normal, Visual or VisualLine, a and i pressed with an operator
\* pending or in Visual / VisualLine emit only Redraw, keep the mode and set
\* the motion Around / Inside; otherwise a and i, and in every case A, I, o
\* and O, emit ChangeStart and then their positioning events (a: Right;
\* i: none; A: End; I: SoftHome; o: End, NewLine; O: Home, NewLine, Up),
\* switch to Insert with a change pending and leave the accumulator alone.
InsertKeys ==
  \A c \in {"a", "i", "A", "I", "o", "O"} :
    Returned /\ pre.mode \in NormalModes /\ KeyIn = KeyChar(c) =>
      IF c \in {"a", "i"} /\ (IsSome(pre.cmd.operator) \/ pre.mode # Normal)
        THEN /\ out = <<Redraw>>
             /\ mode = pre.mode
             /\ cmd = [pre.cmd EXCEPT
                         !.motion = Some(M(IF c = "a" THEN "Around" ELSE "Inside"))]
        ELSE /\ out = <<ChangeStart>> \o Positioning(c) \o <<Redraw>>
             /\ mode = Insert
             /\ IsSome(pending_change)
             /\ cmd = pre.cmd

\* C28 witness: a pressed in Visual mode with no operator pending
AroundInVisual ==
  /\ Returned
  /\ pre.mode = Visual
  /\ pre.cmd = DefaultCmd
  /\ key = KeyChar("a")
  /\ out = <<Redraw>>
  /\ mode = Visual
  /\ cmd.motion = Some(M("Around"))

\* C29: with the selection inactive, in Normal, Visual or VisualLine, C
\* (unless Change is pending) is Change to the end of the line and D (unless
\* Delete is pending) is Delete to the end of the line: both emit
\* ChangeStart, SelectStart, Motion(End) count times, Yank{register}, Delete,
\* SelectClear; C then enters Insert without ChangeFinish, D emits
\* ChangeFinish and ends in Normal; the accumulator is default afterwards.
ChangeDeleteToEnd ==
  \A c \in {"C", "D"} :
    \A operator \in {IF c = "C" THEN "Change" ELSE "Delete"} :
      /\ Returned
      /\ ~selection
      /\ pre.mode \in NormalModes
      /\ pre.cmd.operator # Some(operator)
      /\ KeyIn = KeyChar(c)
      => /\ out = <<ChangeStart, Ev("SelectStart")>>
                    \o Repeated(EvMotion(M("End")), CountOf(pre.cmd))
                    \o <<EvYank(RegisterOf(pre.cmd)), Ev("Delete"), Ev("SelectClear")>>
                    \o (IF c = "C" THEN <<>> ELSE <<ChangeFinish>>)
                    \o <<Redraw>>
         /\ mode = IF c = "C" THEN Insert ELSE Normal
         /\ IsSome(pending_change) <=> c = "C"
         /\ cmd = DefaultCmd

\* C29 witness: D on a fresh accumulator in Normal mode
DeleteToEnd ==
  /\ Returned
  /\ ~selection
  /\ pre.mode = Normal
  /\ pre.cmd = DefaultCmd
  /\ pre.pending_change = None
  /\ key = KeyChar("D")
  /\ out = <<ChangeStart, Ev("SelectStart"), EvMotion(M("End")),
             EvYank(VI_DEFAULT_REGISTER), Ev("Delete"), Ev("SelectClear"), ChangeFinish,
             Redraw>>
  /\ mode = Normal

\* h, l or the space key pressed with no operator pending
SidewaysKey ==
  /\ Returned
  /\ pre.mode \in NormalModes
  /\ pre.cmd.operator = None
  /\ KeyIn \in {KeyChar("h"), KeyChar("l"), KeyChar(" ")}

\* the call emitted the motion once for each unit of the count, and Redraw
Moved(motion) == out = Repeated(EvMotion(motion), CountOf(pre.cmd)) \o <<Redraw>>

\* C30: in Normal, Visual or VisualLine with no operator pending, h emits
\* Motion(LeftInLine), l emits Motion(RightInLine) and the space key emits
\* Motion(Right), each count times.
SidewaysMotions ==
  SidewaysKey =>
    Moved(CASE KeyIn[2] = "h" -> M("LeftInLine")
            [] KeyIn[2] = "l" -> M("RightInLine")
            [] KeyIn[2] = " " -> M("Right"))

\* C30 as the specification states it: l emits Motion(Right) as the space
\* key does
SidewaysRight ==
  SidewaysKey =>
    Moved(CASE KeyIn[2] = "h" -> M("LeftInLine")
            [] KeyIn[2] = "l" -> M("Right")
            [] KeyIn[2] = " " -> M("Right"))

\* C30 witness: l on a fresh accumulator in Normal mode
RightInLineMoved ==
  /\ Returned
  /\ pre.mode = Normal
  /\ pre.cmd = DefaultCmd
  /\ key = KeyChar("l")
  /\ out = <<EvMotion(M("RightInLine")), Redraw>>

(***************************************************************************)
(* Properties of the word iterator.                                        *)
(***************************************************************************)
\* the kind of a character as the word flavours are described: "Blank" for
\* whitespace; for Lower "Keyword" for letters, digits and '_', "NonBlank"
\* for the rest; for Upper "NonBlank" for everything that is not whitespace
KindOf(w, c) ==
  IF c = " " THEN "Blank"
  ELSE IF w = Lower /\ c \in {"a", "7", "_", WIDE} THEN "Keyword"
  ELSE "NonBlank"

\* the maximal runs of one non-blank kind, as pairs of character positions
Runs(l, w) ==
  { r \in (1..Len(l)) \X (1..Len(l)) :
      /\ r[1] <= r[2]
      /\ KindOf(w, l[r[1]]) # "Blank"
      /\ \A p \in r[1]..r[2] : KindOf(w, l[p]) = KindOf(w, l[r[1]])
      /\ r[1] = 1 \/ KindOf(w, l[r[1] - 1]) # KindOf(w, l[r[1]])
      /\ r[2] = Len(l) \/ KindOf(w, l[r[2] + 1]) # KindOf(w, l[r[1]]) }

\* the item i covers the byte at offset b
Covers(i, b) == items[i][1] <= b /\ b < items[i][1] + ByteLen(items[i][2])

\* C31: once next() has returned None, the items yielded are exactly the
\* maximal runs of characters of one non-blank kind (for Lower: Keyword or
\* NonBlank; for Upper: not whitespace), each with the byte offset at which
\* it starts, in the order of the line; every character that is not
\* whitespace lies in exactly one item and no item holds whitespace.
WordsAreRuns ==
  nones >= 1 =>
    /\ {items[i] : i \in 1..Len(items)} =
         {<<ByteOffset(line, r[1]), SubSeq(line, r[1], r[2])>> : r \in Runs(line, word)}
    /\ \A i \in 1..(Len(items) - 1) : items[i][1] < items[i + 1][1]
    /\ \A p \in 1..Len(line) :
         line[p] # " " =>
           Cardinality({i \in 1..Len(items) : Covers(i, ByteOffset(line, p))}) = 1
    /\ \A i \in 1..Len(items) : \A q \in 1..Len(items[i][2]) : items[i][2][q] # " "

\* C31 witness: the words of a line with a two-byte letter, punctuation,
\* a blank and a letter, flavour Lower
WordsOfLine ==
  /\ nones = 1
  /\ word = Lower
  /\ line = <<WIDE, ".", " ", "a">>
  /\ items = << <<0, <<WIDE>>>>, <<2, <<".">>>>, <<4, <<"a">>>> >>

\* the items yielded so far are non-empty, start at strictly increasing
\* offsets, do not overlap, and are at most as many as the line has bytes
ItemsAdvance ==
  /\ \A i \in 1..Len(items) : items[i][2] # <<>>
  /\ \A i \in 1..(Len(items) - 1) :
       /\ items[i][1] < items[i + 1][1]
       /\ items[i][1] + ByteLen(items[i][2]) <= items[i + 1][1]
  /\ Len(items) <= ByteLen(line)

\* a call of next(): the cursor does not decrease, and after a None nothing
\* more is yielded
CursorAdvances ==
  /\ index' >= index
  /\ nones >= 1 => items' = items /\ nones' = nones + 1

\* C32: every yielded slice is non-empty, successive items start at strictly
\* increasing offsets and do not overlap, at most len(line) items are
\* yielded, the cursor never decreases, and once next() has returned None
\* every later call returns None.
WordIterFinite == []ItemsAdvance /\ [][CursorAdvances]_vars

\* C32 witness: next() has returned None twice after yielding two words
NoneTwice ==
  /\ nones >= 2
  /\ Len(items) = 2
  /\ index = ByteLen(line)

(***************************************************************************)
(* Properties of the accumulator between calls.                            *)
(***************************************************************************)
\* the keys whose handler is one cmd.motion(m) and that never name a text object
OrdinaryMotionKeys == MotionKeys \ {KeyChar(c) : c \in {"b", "B", "w", "W"}}

\* the parser before the call, without the motion that was waiting
WithoutMotion == [pre EXCEPT !.cmd.motion = None]

\* C33: after every parse call, and after a reset() made then, text_object
\* is absent and motion is absent, Around or Inside; an ordinary motion key
\* that follows a waiting Around or Inside replaces it: the motion is run in
\* that call and the call does what it does without the waiting motion
\* (d,a,j behaves as d,j).
MotionNeverStays ==
  /\ cmd.text_object = None
  /\ cmd.motion \in {None, Some(M("Around")), Some(M("Inside"))}
  /\ ResetSelf(Parser).cmd.text_object = None
  /\ ResetSelf(Parser).cmd.motion = None
  /\ ( /\ Returned
       /\ pre.mode \in NormalModes
       /\ pre.cmd.motion \in {Some(M("Around")), Some(M("Inside"))}
       /\ key \in OrdinaryMotionKeys )
     => /\ ran # {}
        /\ cmd.motion = None
        /\ \E r \in {ParseCall(WithoutMotion, key, selection)} :
             /\ r.out = out
             /\ r.parser = Parser
             /\ r.ran = ran

\* C33 witness: d, a, j has deleted down one line
AroundReplaced ==
  /\ Returned
  /\ pre.cmd.operator = Some("Delete")
  /\ pre.cmd.motion = Some(M("Around"))
  /\ key = KeyChar("j")
  /\ out = << ChangeStart, Ev("SelectStart"), EvMotion(M("Down")),
              EvYank(VI_DEFAULT_REGISTER), Ev("Delete"), Ev("SelectClear"),
              ChangeFinish, Redraw >>

\* the call found the parser in Normal, Visual or VisualLine mode
InNormal == Returned /\ pre.mode \in NormalModes

\* C34: the count is absent or at least 1 in every state (0 typed first is
\* the Home motion, and 0 typed after a count of half the range of usize
\* does not wrap to 0), so x, X, Delete and s, when s is not the Sentence
\* text object, emit at least one event, as many as the count says, and a
\* motion key emits its motion at least once.
CountPositive ==
  /\ cmd.count = None \/ Unwrap(cmd.count) >= 1
  /\ Zero([cmd |-> [DefaultCmd EXCEPT !.count = Some(2 ^ (UsizeBits - 1))]]).cmd.count
       = Some(UsizeMax)
  /\ InNormal /\ KeyIn \in {KeyChar("x"), <<"Delete">>} =>
       Count(out, Ev("Delete")) = CountOf(pre.cmd) /\ Has(out, "Delete")
  /\ InNormal /\ KeyIn = KeyChar("X") =>
       Count(out, Ev("Backspace")) = CountOf(pre.cmd) /\ Has(out, "Backspace")
  /\ InNormal /\ KeyIn = KeyChar("s") /\ ~WantsTextObject(pre) =>
       Count(out, Ev("Delete")) = CountOf(pre.cmd) /\ Has(out, "Delete")
  /\ InNormal /\ KeyIn \in OrdinaryMotionKeys => Has(out, "Motion")

\* C34 witness: 2, s has deleted two characters and entered Insert mode
SubstituteTwo ==
  /\ Returned
  /\ pre.cmd = [DefaultCmd EXCEPT !.count = Some(2)]
  /\ pre.mode = Normal
  /\ key = KeyChar("s")
  /\ out = <<ChangeStart, Ev("Delete"), Ev("Delete"), Redraw>>
  /\ mode = Insert

(***************************************************************************)
(* Properties of the repeat key.                                           *)
(***************************************************************************)
\* "." has returned, pressed in Normal mode
DotPressed == Returned /\ key = KeyChar(".") /\ pre.mode = Normal

\* what "." emits for the change it found stored
Replay == <<ChangeStart>> \o Unwrap(pre.last_change) \o <<ChangeFinish, Redraw>>

\* C35 as stated: "." in Normal mode with a stored change leaves last_change
\* as it was and emits the stored events between ChangeStart and
\* ChangeFinish; with no stored change it emits only Redraw.
DotKeepsChange ==
  /\ DotPressed /\ IsSome(pre.last_change) =>
       last_change = pre.last_change /\ out = Replay
  /\ DotPressed /\ pre.last_change = None =>
       out = <<Redraw>> /\ last_change = None

\* C35: "." in Normal mode with a stored change and no change left open
\* leaves last_change as it was and emits ChangeStart, the stored events,
\* ChangeFinish, Redraw, so that pressing it again emits the same; with a
\* stored change it emits these events also when a change was left open;
\* with no stored change it emits only Redraw and stores nothing.
DotKeepsClosedChange ==
  /\ DotPressed /\ IsSome(pre.last_change) => out = Replay
  /\ DotPressed /\ IsSome(pre.last_change) /\ pre.pending_change = None =>
       last_change = pre.last_change /\ pending_change = None
  /\ DotPressed /\ pre.last_change = None =>
       out = <<Redraw>> /\ last_change = None

\* C35 witness: "." pressed after a change that the stream shows completed
\* with the same events, and the stored change is as before
DotAgain ==
  /\ DotPressed
  /\ pre.pending_change = None
  /\ pre.last_change = Some(<<EvInsert("x"), EvMotion(M("LeftInLine"))>>)
  /\ single = pre.last_change
  /\ last_change = pre.last_change
  /\ out = <<ChangeStart, EvInsert("x"), EvMotion(M("LeftInLine")), ChangeFinish, Redraw>>

(***************************************************************************)
(* Properties of the Escape key.                                           *)
(***************************************************************************)
\* the parser p is in Normal mode with a default accumulator and no change pending
AtHome(p) == p.mode = Normal /\ p.cmd = DefaultCmd /\ p.pending_change = None

\* C36: in runs of parse calls, one Escape leaves the parser in Normal mode
\* with a default accumulator and no pending change, except from Extra('"'),
\* where it returns to the remembered mode and leaves the accumulator as it
\* is; a second Escape, with or without a selection, reaches Normal with a
\* default accumulator and no pending change from every state.
EscapeHome ==
  Returned /\ KeyIn = <<"Escape">> =>
    /\ pre.mode # Extra("\"") => AtHome(Parser)
    /\ pre.mode = Extra("\"") =>
         /\ mode = pre.register_mode
         /\ register_mode = Normal
         /\ cmd = pre.cmd
         /\ pending_change = None
    /\ \A sel \in BOOLEAN : AtHome(ParseCall(Parser, <<"Escape">>, sel).parser)

\* C36 witness: d, '"', Escape has left the operator waiting in Normal mode
EscapeKeepsOperator ==
  /\ Returned
  /\ key = <<"Escape">>
  /\ pre.mode = Extra("\"")
  /\ pre.cmd.operator = Some("Delete")
  /\ mode = Normal
  /\ cmd.operator = Some("Delete")
  /\ AtHome(ParseCall(Parser, <<"Escape">>, FALSE).parser)

(***************************************************************************)
(* Properties of the saved find motion.                                    *)
(***************************************************************************)
\* the motion that ',' makes of the saved motion the call found
Reversed == Unwrap(MotionReverse(Unwrap(pre.semicolon_motion)))

\* ',' was handled in Normal, Visual or VisualLine mode with a motion saved,
\* and the parser is in one of these modes again
CommaPressed ==
  /\ InNormal
  /\ key = KeyChar(",")
  /\ IsSome(pre.semicolon_motion)
  /\ mode \in NormalModes

\* C37: semicolon_motion changes only in a call that handles a Char key in
\* Extra('f' | 'F' | 't' | 'T'); every other key in every mode, and a
\* reset() made in any state, leave it as it is; the motion saved in such a
\* call is still there when the call has left the Extra mode, and a second
\* ',' emits the same reversed motion as the first.
SavedMotionFrame ==
  /\ semicolon_motion # pre.semicolon_motion =>
       /\ Returned
       /\ pre.mode[1] = "Extra"
       /\ pre.mode[2] \in {"f", "F", "t", "T"}
       /\ KeyIn[1] = "Char"
  /\ FindCall => semicolon_motion = Some(FoundMotion) /\ mode[1] # "Extra"
  /\ ResetSelf(Parser).semicolon_motion = semicolon_motion
  /\ CommaPressed =>
       /\ Count(out, EvMotion(Reversed)) = CountOf(pre.cmd)
       /\ \A sel \in BOOLEAN :
            \E r \in {ParseCall(Parser, KeyChar(","), sel)} :
              /\ r.out = <<EvMotion(Reversed), Redraw>>
              /\ r.parser.semicolon_motion = pre.semicolon_motion

\* C37 witness: ',' after F, x has moved to the next x, and so will the next ','
CommaTwice ==
  /\ CommaPressed
  /\ pre.semicolon_motion = Some(PreviousChar("x"))
  /\ semicolon_motion = Some(PreviousChar("x"))
  /\ out = <<EvMotion(NextChar("x")), Redraw>>
  /\ ParseCall(Parser, KeyChar(","), FALSE).out = out

(***************************************************************************)
(* Properties of the put keys.                                             *)
(***************************************************************************)
\* p, not taken as the Paragraph text object, or P has returned
PutPressed ==
  /\ InNormal
  /\ \/ key = KeyChar("p") /\ ~WantsTextObject(pre)
     \/ key = KeyChar("P")

\* C38: p, when it is not the Paragraph text object, and P emit one Put with
\* the register selected, or '"', and after = TRUE for p, FALSE for P, then
\* Redraw; they leave the accumulator and the rest of the parser as they
\* were, so that a yank of the selection made next goes into the register
\* selected before the put, and an x typed next deletes as many characters
\* as the count typed before the put says.
PutReadsOnly ==
  PutPressed =>
    /\ out = <<EvPut(RegisterOf(pre.cmd), key = KeyChar("p")), Redraw>>
    /\ cmd = pre.cmd
    /\ Parser = pre
    /\ Has(ParseCall(Parser, KeyChar("y"), TRUE).out, "Yank") =>
         Count(ParseCall(Parser, KeyChar("y"), TRUE).out, EvYank(RegisterOf(pre.cmd))) = 1
    /\ Count(ParseCall(Parser, KeyChar("x"), FALSE).out, Ev("Delete")) = CountOf(pre.cmd)

\* C38 witness: '"', x, p has put register x and the register is still
\* selected for the yank that follows
PutKeepsRegister ==
  /\ PutPressed
  /\ key = KeyChar("p")
  /\ pre.cmd.register = Some("x")
  /\ out = <<EvPut("x", TRUE), Redraw>>
  /\ cmd.register = Some("x")
  /\ ParseCall(Parser, KeyChar("y"), TRUE).out =
       <<ChangeStart, EvYank("x"), Ev("SelectClear"), ChangeFinish, Redraw>>

(***************************************************************************)
(* Properties of operator commands in the typing specification.            *)
(***************************************************************************)
\* the keys ks are digits and one operator key
OperatorTyped(ks) ==
  /\ \A i \in 1..Len(ks) : ks[i] \in DigitKeys \cup OperatorTypedKeys
  /\ Cardinality({i \in 1..Len(ks) : ks[i] \in OperatorTypedKeys}) = 1

\* the operator key among ks, and its operator
OperatorKeyOf(ks) == ks[CHOOSE i \in 1..Len(ks) : ks[i] \in OperatorTypedKeys]
OperatorTypedOf(ks) == OperatorOfKey(OperatorKeyOf(ks)[2])

\* the digits among ks read as one decimal number, 1 when there is none
IsDigitKey(k) == k \in DigitKeys
OneCount(ks) ==
  IF SelectSeq(ks, IsDigitKey) = <<>> THEN 1 ELSE KeysValue(SelectSeq(ks, IsDigitKey))

\* the events of an operator command whose selection the events sel make
Operated(ks, sel) ==
  <<ChangeStart>> \o sel \o EffectEvents(OperatorTypedOf(ks))
    \o <<Ev("SelectClear"), ChangeFinish, Redraw>>

\* C39: the digits typed before and after an operator are one decimal
\* count: a motion key after them emits its motion as many times as that
\* number says (2, d, 3, w: 23 times); when the operator key is typed again
\* (motion Line), when a or i and a text object key follow (Around,
\* Inside), and when the operator key is typed with the selection active
\* (Selection), the events are the same whatever the digits, and the count
\* is gone from the accumulator afterwards.
OneDecimalCount ==
  pc = "returned" /\ Len(typed) >= 2 =>
    \A body \in {SubSeq(typed, 1, Len(typed) - 1)}, k \in {typed[Len(typed)]} :
      /\ OperatorTyped(body) /\ k \in {KeyChar("w"), KeyChar("j")} =>
           /\ out = Operated(body, <<Ev("SelectStart")>>
                                     \o Repeated(EvMotion(MotionOfKey(k)), OneCount(body)))
           /\ cmd = DefaultCmd
      /\ OperatorTyped(body) /\ k = OperatorKeyOf(body) =>
           /\ out = Operated(body, <<Ev("SelectLineStart")>>)
           /\ cmd = DefaultCmd
      /\ ( /\ Len(body) >= 2
           /\ OperatorTyped(SubSeq(body, 1, Len(body) - 1))
           /\ body[Len(body)] \in {KeyChar("a"), KeyChar("i")}
           /\ k \in ObjectKeys )
         => /\ out = Operated(SubSeq(body, 1, Len(body) - 1),
                              <<EvSelectTextObject(TextObjectOfChar(k[2]),
                                                   body[Len(body)] = KeyChar("a"))>>)
            /\ cmd = DefaultCmd
      /\ OperatorTyped(typed) /\ k \in OperatorTypedKeys =>
           \E r \in {ParseCall(pre, k, TRUE)} :
             /\ r.out = Operated(typed, <<>>)
             /\ r.parser.cmd = DefaultCmd

\* C39 witness: 2, d, 3, w has deleted 23 words
TwentyThreeWords ==
  /\ pc = "returned"
  /\ typed = <<KeyChar("2"), KeyChar("d"), KeyChar("3"), KeyChar("w")>>
  /\ pre.cmd = [DefaultCmd EXCEPT !.count = Some(23), !.operator = Some("Delete")]
  /\ Count(out, EvMotion(NextWordStart(Lower))) = 23
  /\ cmd = DefaultCmd

(***************************************************************************)
(* Properties of reset() during a change.                                  *)
(***************************************************************************)
\* the events that a pending change records
IsRecorded(event) == event \notin {ChangeStart, ChangeFinish, Redraw}
Kept(events) == SelectSeq(events, IsRecorded)

\* the events of the call up to its first ChangeFinish
UntilFinish ==
  SubSeq(out, 1, (CHOOSE i \in 1..Len(out) : out[i] = ChangeFinish /\
                    \A j \in 1..(i - 1) : out[j] # ChangeFinish) - 1)

\* a parse call found a change pending outside Insert and Replace mode
LeftOverCall == Returned /\ LeftOver(pre)

\* C40: reset() sets mode and cmd and nothing else, and emits no event; a
\* change that it leaves open outside Insert and Replace mode goes on
\* recording: a call that emits no ChangeFinish appends its events to it,
\* and the call that emits the next ChangeFinish stores the events left
\* over, followed by its own up to the ChangeFinish, as last_change.
ResetLeavesChangeOpen ==
  /\ WasReset =>
       /\ Parser = [pre EXCEPT !.mode = Normal, !.cmd = DefaultCmd]
       /\ out = <<>>
  /\ LeftOverCall /\ ~Has(out, "ChangeFinish") =>
       /\ pending_change = Some(Unwrap(pre.pending_change) \o Kept(out))
       /\ last_change = pre.last_change
  /\ LeftOverCall /\ Has(out, "ChangeFinish") =>
       /\ last_change = Some(Unwrap(pre.pending_change) \o Kept(UntilFinish))
       /\ pending_change = None

\* C40 witness: i, x, reset(), d, d has stored the inserted x together with
\* the deletion of the line
InsertStoredWithDelete ==
  /\ LeftOverCall
  /\ key = KeyChar("d")
  /\ pre.mode = Normal
  /\ pre.pending_change = Some(<<EvInsert("x")>>)
  /\ out = << ChangeStart, Ev("SelectLineStart"), EvYank(VI_DEFAULT_REGISTER),
              Ev("Delete"), Ev("SelectClear"), ChangeFinish, Redraw >>
  /\ last_change = Some(<< EvInsert("x"), Ev("SelectLineStart"),
                           EvYank(VI_DEFAULT_REGISTER), Ev("Delete"),
                           Ev("SelectClear") >>)

====
